---- MODULE Spec2Model ----
(***************************************************************************)
(* Model of the hardcoresnake game core: the Game state machine            *)
(* (src/src/game.cpp), the network session manager and its message queue   *)
(* (src/src/multiplayer.cpp, src/include/multiplayer.h) and the match-end  *)
(* winner resolution.                                                      *)
(*                                                                         *)
(* One Game object (with its GameContext) is a record; `peer` maps every   *)
(* running process to its Game record.  Handlers are operators from a Game *)
(* record to the Game record after the handler; the messages a handler     *)
(* sends (mp_api_game) are collected in the record's `out` field, which a  *)
(* step hands to the transport and empties.                                *)
(***************************************************************************)
EXTENDS Integers, Sequences, FiniteSets, TLC

VARIABLES
    peer,      \* process name -> its Game object (Game + GameContext fields)
    now,       \* SDL_GetTicks(): the millisecond clock
    wire       \* process name -> transport events travelling to that process

vars == <<peer, now, wire>>

(***************************************************************************)
(* Bounds of the model.                                                    *)
(***************************************************************************)
MaxQueue == 2     \* messages waiting in one NetworkMessageQueue
MaxPushes == 2    \* events the open environment delivers to the process
MaxWire == 3      \* events in flight to one peer of the closed session
MaxDeliveries == 4 \* events delivered to one peer of the closed session
MaxRequests == 2  \* pause / resume key presses of one process that take effect
MaxMatchPushes == 3 \* events delivered to the process of the running match
MaxBody == 4      \* segments of the snake that is called on its own
MaxPenalty == 10  \* points that snake may be below zero
MaxScore == 10    \* highest score of that snake
WalkWidth == 4    \* columns of the grid that snake walks on
WalkHeight == 3   \* rows of the grid that snake walks on

(***************************************************************************)
(* Program constants.                                                      *)
(***************************************************************************)
MAX_PLAYERS == 4
GRID_WIDTH == 40
GRID_HEIGHT == 30
MATCH_DURATION_SECONDS == 120
COUNTDOWN_MS == 3000
TIMER_BROADCAST_MS == 1000
STATE_SYNC_MS == 5000
CONNECTION_TIMEOUT_DISCONNECT_MS == 30000
INITIAL_SPEED_MS == 100
BODY_CEILING == 400
MAX_FOOD_SPAWN_ATTEMPTS == 1000

\* Uint32 arithmetic wraps modulo 2^32.  TLC's integers are 32-bit signed, so
\* the model wraps modulo 2^30: every time of the model is below 2^17, and a
\* difference that would be negative still wraps to a number above every time.
WORD == 2 ^ 30

U32(x) == x % WORD

Slots == 0 .. (MAX_PLAYERS - 1)

GameStates == {"MENU", "SINGLEPLAYER", "MULTIPLAYER", "LOBBY", "COUNTDOWN",
               "PAUSED", "PLAYING", "MATCH_END"}

(***************************************************************************)
(* Snake and the player slots.                                             *)
(***************************************************************************)
Pos(x, y) == [x |-> x, y |-> y]

\* A position of the grid.
InGrid(pos) ==
    pos.x >= 0 /\ pos.x < GRID_WIDTH /\ pos.y >= 0 /\ pos.y < GRID_HEIGHT

\* Snake::Snake: three segments extending to the left of startPos.
NewSnake(startPos) ==
    [body |-> << startPos, Pos(startPos.x - 1, startPos.y),
                 Pos(startPos.x - 2, startPos.y) >>,
     direction |-> "NONE", nextDirection |-> "NONE",
     alive |-> TRUE, score |-> 0]

\* Snake::reset: the body is rebuilt and the score loses the death penalty.
SnakeReset(s, startPos) ==
    [s EXCEPT !.body = << startPos, Pos(startPos.x - 1, startPos.y),
                          Pos(startPos.x - 2, startPos.y) >>,
              !.direction = "NONE", !.nextDirection = "NONE",
              !.alive = TRUE, !.score = s.score - 10]

\* Snake::setDirection: a snake that has not moved yet turns round when asked
\* to go against the way its body lies; a moving snake refuses a reversal.
Reverse(seq) == [k \in 1 .. Len(seq) |-> seq[Len(seq) + 1 - k]]

\* setDirection testing the reversal against the pending direction.
setDirection_against_pending(s, dir) ==
    IF s.direction = "NONE" /\ Len(s.body) >= 2
    THEN LET head == s.body[1]
             neck == s.body[2]
             turn == \/ dir = "LEFT" /\ head.x > neck.x
                     \/ dir = "RIGHT" /\ head.x < neck.x
                     \/ dir = "UP" /\ head.y > neck.y
                     \/ dir = "DOWN" /\ head.y < neck.y
         IN  [s EXCEPT !.body = IF turn THEN Reverse(@) ELSE @,
                       !.nextDirection = dir]
    ELSE IF \/ dir = "UP" /\ s.nextDirection # "DOWN"
            \/ dir = "DOWN" /\ s.nextDirection # "UP"
            \/ dir = "LEFT" /\ s.nextDirection # "RIGHT"
            \/ dir = "RIGHT" /\ s.nextDirection # "LEFT"
    THEN [s EXCEPT !.nextDirection = dir]
    ELSE s

setDirection(s, dir) ==
    IF s.direction = "NONE" /\ Len(s.body) >= 2
    THEN LET head == s.body[1]
             neck == s.body[2]
             turn == \/ dir = "LEFT" /\ head.x > neck.x
                     \/ dir = "RIGHT" /\ head.x < neck.x
                     \/ dir = "UP" /\ head.y > neck.y
                     \/ dir = "DOWN" /\ head.y < neck.y
         IN  [s EXCEPT !.body = IF turn THEN Reverse(@) ELSE @,
                       !.nextDirection = dir]
    ELSE IF \/ dir = "UP" /\ s.direction # "DOWN"
            \/ dir = "DOWN" /\ s.direction # "UP"
            \/ dir = "LEFT" /\ s.direction # "RIGHT"
            \/ dir = "RIGHT" /\ s.direction # "LEFT"
    THEN [s EXCEPT !.nextDirection = dir]
    ELSE s

\* The cell next to pos in direction dir.
Moved(pos, dir) ==
    CASE dir = "UP" -> Pos(pos.x, pos.y - 1)
      [] dir = "DOWN" -> Pos(pos.x, pos.y + 1)
      [] dir = "LEFT" -> Pos(pos.x - 1, pos.y)
      [] dir = "RIGHT" -> Pos(pos.x + 1, pos.y)
      [] OTHER -> pos

\* Snake::update without the pop_back.
SnakeUpdate_no_pop(s) ==
    IF ~s.alive THEN s
    ELSE IF s.nextDirection = "NONE" THEN [s EXCEPT !.direction = "NONE"]
    ELSE [s EXCEPT !.direction = s.nextDirection,
                   !.body = << Moved(s.body[1], s.nextDirection) >> \o s.body]

\* Snake::update: a live snake commits nextDirection and, unless that is
\* NONE, gets a new head in front and loses its last segment.
SnakeUpdate(s) ==
    IF ~s.alive THEN s
    ELSE IF s.nextDirection = "NONE" THEN [s EXCEPT !.direction = "NONE"]
    ELSE [s EXCEPT !.direction = s.nextDirection,
                   !.body = << Moved(s.body[1], s.nextDirection) >>
                            \o SubSeq(s.body, 1, Len(s.body) - 1)]

\* Snake::grow adding the score only.
grow_score_only(s) ==
    IF s.body = <<>> THEN s ELSE [s EXCEPT !.score = @ + 10]

\* Snake::grow: the last segment is doubled and the score gains 10.
grow(s) ==
    IF s.body = <<>> THEN s
    ELSE [s EXCEPT !.body = Append(@, s.body[Len(s.body)]), !.score = @ + 10]

\* Snake::setBody without the test for an empty body.
setBody_unchecked(s, newBody) == [s EXCEPT !.body = newBody]

\* Snake::setBody: an empty body is ignored.
setBody(s, newBody) ==
    IF newBody # <<>> THEN [s EXCEPT !.body = newBody] ELSE s

\* A slot's snake is a unique_ptr: <<>> is nullptr, <<s>> owns snake s.
EmptySlot == [snake |-> <<>>, clientId |-> "", active |-> FALSE, paused |-> FALSE]

PLAYER_SPAWN_POSITIONS ==
    [i \in Slots |->
        CASE i = 0 -> Pos(GRID_WIDTH \div 4, GRID_HEIGHT \div 4)
          [] i = 1 -> Pos((3 * GRID_WIDTH) \div 4, GRID_HEIGHT \div 4)
          [] i = 2 -> Pos(GRID_WIDTH \div 4, (3 * GRID_HEIGHT) \div 4)
          [] OTHER -> Pos((3 * GRID_WIDTH) \div 4, (3 * GRID_HEIGHT) \div 4)]

\* PlayerManager::isValid
isValid(g, i) == i \in Slots /\ g.players[i].active /\ g.players[i].snake # <<>>

\* PlayerManager::hasMe
hasMe(g) == g.myIndex >= 0

\* find_player_by_client_id: the first active slot holding clientId, or -1.
find_player_by_client_id(g, clientId) ==
    LET hits == {i \in Slots : g.players[i].active /\ g.players[i].clientId = clientId}
    IN  IF hits = {} THEN -1 ELSE CHOOSE i \in hits : \A j \in hits : i <= j

\* add_player: the first inactive slot gets a new snake at the slot's spawn
\* position; with no inactive slot nothing happens.
add_player(g, clientId) ==
    LET free == {i \in Slots : ~g.players[i].active}
    IN  IF free = {} THEN g
        ELSE LET i == CHOOSE k \in free : \A j \in free : k <= j
             IN  [g EXCEPT !.players[i] =
                      [snake |-> << NewSnake(PLAYER_SPAWN_POSITIONS[i]) >>,
                       clientId |-> clientId, active |-> TRUE,
                       paused |-> g.players[i].paused]]

\* remove_player: the first active slot holding clientId is freed.
remove_player(g, clientId) ==
    LET i == find_player_by_client_id(g, clientId)
    IN  IF i < 0 THEN g
        ELSE [g EXCEPT !.players[i].active = FALSE,
                       !.players[i].snake = <<>>,
                       !.players[i].clientId = ""]

(***************************************************************************)
(* Outbound messages and the transition log.                               *)
(***************************************************************************)
\* mp_api_game(api, message)
Send(g, message) == [g EXCEPT !.out = Append(@, message)]

\* NetworkManager::sendGameMessage: only inside a session.
sendGameMessage(g, message) ==
    IF ~g.api \/ g.sessionId = "" THEN g ELSE Send(g, message)

\* sendGlobalPauseState (NetworkManager::sendPauseState)
sendGlobalPauseState(g, paused, pauserClientId) ==
    IF ~g.api \/ g.sessionId = "" THEN g
    ELSE Send(g, [type |-> "state_sync", globalPaused |-> paused,
                  pausedBy |-> pauserClientId,
                  totalPausedTime |-> g.totalPausedTime,
                  pauseStartTime |-> g.pauseStartTime])

IsPauseMessage(m) == "globalPaused" \in DOMAIN m /\ "players" \notin DOMAIN m

(***************************************************************************)
(* NetworkManager::shutdown and Game::resetGameState.                      *)
(***************************************************************************)
shutdown(g) ==
    IF g.api
    THEN [g EXCEPT !.api = FALSE, !.sessionId = "", !.myClientId = "",
                   !.isHost = FALSE]
    ELSE g

resetGameState(g) ==
    LET g1 == shutdown(g)
    IN  [g1 EXCEPT !.players = [i \in Slots |->
                        [g1.players[i] EXCEPT !.active = FALSE, !.snake = <<>>]],
                   !.myIndex = -1,
                   !.winnerIndex = -1,
                   !.totalPausedTime = 0,
                   !.pauseStartTime = 0,
                   !.matchStartTime = 0]

(***************************************************************************)
(* The state machine: Game::isValidTransition, exitState, enterState,      *)
(* changeState.                                                            *)
(***************************************************************************)
\* isValidTransition without the way back from LOBBY to the session browser.
isValidTransition_strict(from, to) ==
    \/ from = to
    \/ from = "MENU" /\ to \in {"SINGLEPLAYER", "MULTIPLAYER", "PLAYING"}
    \/ from = "SINGLEPLAYER" /\ to \in {"PLAYING", "MENU"}
    \/ from = "MULTIPLAYER" /\ to \in {"LOBBY", "MENU"}
    \/ from = "LOBBY" /\ to \in {"COUNTDOWN", "PLAYING", "MENU"}
    \/ from = "COUNTDOWN" /\ to \in {"PLAYING", "LOBBY"}
    \/ from = "PLAYING" /\ to \in {"PAUSED", "MATCH_END", "MENU"}
    \/ from = "PAUSED" /\ to \in {"PLAYING", "MENU"}
    \/ from = "MATCH_END" /\ to \in {"MENU", "LOBBY"}

isValidTransition(from, to) ==
    \/ from = to
    \/ from = "MENU" /\ to \in {"SINGLEPLAYER", "MULTIPLAYER", "PLAYING"}
    \/ from = "SINGLEPLAYER" /\ to \in {"PLAYING", "MENU"}
    \/ from = "MULTIPLAYER" /\ to \in {"LOBBY", "MENU"}
    \/ from = "LOBBY" /\ to \in {"COUNTDOWN", "PLAYING", "MENU", "MULTIPLAYER"}
    \/ from = "COUNTDOWN" /\ to \in {"PLAYING", "LOBBY"}
    \/ from = "PLAYING" /\ to \in {"PAUSED", "MATCH_END", "MENU"}
    \/ from = "PAUSED" /\ to \in {"PLAYING", "MENU"}
    \/ from = "MATCH_END" /\ to \in {"MENU", "LOBBY"}

exitState(g, oldState, fromNetwork, t) ==
    IF oldState # "PAUSED" THEN g
    ELSE LET g1 == IF g.pauseStartTime > 0
                   THEN [g EXCEPT !.totalPausedTime = U32(@ + U32(t - g.pauseStartTime)),
                                  !.pauseStartTime = 0]
                   ELSE g
             g2 == IF hasMe(g1) THEN [g1 EXCEPT !.players[g1.myIndex].paused = FALSE]
                   ELSE g1
         IN  IF ~fromNetwork /\ g2.api /\ hasMe(g2)
             THEN sendGlobalPauseState([g2 EXCEPT !.pausedByClientId = ""], FALSE,
                                       g2.players[g2.myIndex].clientId)
             ELSE g2

\* food is the cell the random draw of Food::spawn returned.
enterState(g, newState, fromNetwork, t, food) ==
    CASE newState = "MENU" ->
           [resetGameState(g) EXCEPT !.inputHandler = "handleMenuInput"]
      [] newState = "MULTIPLAYER" ->
           [g EXCEPT !.inputHandler = "handleMultiplayerInput"]
      [] newState = "LOBBY" ->
           [g EXCEPT !.inputHandler = "handleLobbyInput"]
      [] newState = "COUNTDOWN" ->
           [g EXCEPT !.countdownStartTime = t, !.inputHandler = "nullptr"]
      [] newState = "PAUSED" ->
           LET g1 == [g EXCEPT !.pauseMenuSelection = 0, !.pauseStartTime = t]
               g2 == IF hasMe(g1) THEN [g1 EXCEPT !.players[g1.myIndex].paused = TRUE]
                     ELSE g1
               g3 == IF ~fromNetwork /\ g2.api /\ hasMe(g2)
                     THEN sendGlobalPauseState(
                              [g2 EXCEPT !.pausedByClientId = g2.players[g2.myIndex].clientId],
                              TRUE, g2.players[g2.myIndex].clientId)
                     ELSE g2
           IN  [g3 EXCEPT !.inputHandler = "handlePausedInput"]
      [] newState = "PLAYING" ->
           LET g1 == IF g.state # "LOBBY" THEN g
                     ELSE IF g.isHost
                     THEN LET h == [g EXCEPT !.matchStartTime = t,
                                             !.syncedElapsedMs = 0,
                                             !.totalPausedTime = 0,
                                             !.pauseStartTime = 0,
                                             !.food = food]
                          IN  IF h.api
                              THEN sendGameMessage(h,
                                       [type |-> "state_sync", gameState |-> "PLAYING",
                                        matchStartTime |-> h.matchStartTime,
                                        elapsedMs |-> 0, totalPausedTime |-> 0,
                                        foodX |-> h.food.x, foodY |-> h.food.y])
                              ELSE h
                     ELSE [g EXCEPT !.syncedElapsedMs = 0,
                                    !.totalPausedTime = 0,
                                    !.pauseStartTime = 0]
           IN  [g1 EXCEPT !.inputHandler = "handlePlayingInput"]
      [] newState = "MATCH_END" ->
           [g EXCEPT !.inputHandler = "handleMatchEndInput"]
      [] OTHER ->
           [g EXCEPT !.inputHandler = "nullptr"]

\* The line Logger::error writes for a rejected transition (game.cpp:249),
\* with the fromNetwork flag of the call.
ErrorLine(from, to, fromNetwork) == [from |-> from, to |-> to, fromNetwork |-> fromNetwork]

\* changeState with the validation moved after the exit and enter actions.
changeState_late_check(g, newState, fromNetwork, t, food) ==
    LET g1 == exitState(g, g.state, fromNetwork, t)
        g2 == enterState(g1, newState, fromNetwork, t, food)
    IN  IF ~isValidTransition(g.state, newState)
        THEN [g2 EXCEPT !.lastError = ErrorLine(g.state, newState, fromNetwork)]
        ELSE [g2 EXCEPT !.state = newState]

changeState(g, newState, fromNetwork, t, food) ==
    IF ~isValidTransition(g.state, newState)
    THEN [g EXCEPT !.lastError = ErrorLine(g.state, newState, fromNetwork)]
    ELSE LET g1 == exitState(g, g.state, fromNetwork, t)
             g2 == enterState(g1, newState, fromNetwork, t, food)
         IN  [g2 EXCEPT !.state = newState]

\* onStateChange forgetting to flag the transition as coming from the network.
onStateChange_unflagged(g, newState, t, food) ==
    IF g.state # newState THEN changeState(g, newState, FALSE, t, food) ELSE g

\* ctx.onStateChange, the callback the Game constructor installs.
onStateChange(g, newState, t, food) ==
    IF g.state # newState THEN changeState(g, newState, TRUE, t, food) ELSE g

(***************************************************************************)
(* JSON values.  An object is a function from its keys to values;          *)
(* json_object_get of an absent key is NULL.  Every value of a payload has *)
(* the JSON type its key has in the protocol, so json_is_integer,          *)
(* json_is_string, json_is_boolean and json_is_array of a present key      *)
(* hold, and a value of another type is modelled as an absent key;         *)
(* json_integer_value is then narrowed by the C++ assignment.              *)
(***************************************************************************)
Has(data, key) == key \in DOMAIN data

\* json_int_t assigned to an int: the value is narrowed to the signed word
\* (two's complement, at the width of WORD).
ToInt32(v) ==
    LET m == v % WORD
    IN  IF m >= WORD \div 2 THEN m - WORD ELSE m

(***************************************************************************)
(* The inbound message queue: NetworkMessageQueue::push / pop, and the     *)
(* transport callback.  Each pushed message carries the number of its push *)
(* (seq), which the program does not read.                                 *)
(***************************************************************************)
push(g, msg) ==
    [g EXCEPT !.messageQueue = Append(@, [msg EXCEPT !.seq = g.pushed + 1]),
              !.pushed = @ + 1]

\* pop taking the newest message instead of the oldest.
popFront_newest(queue) == queue[Len(queue)]

\* pop: the message at the front, removed.
popFront(queue) == Head(queue)

popRest(queue) == Tail(queue)

NetMsg(type, clientId, jsonData) ==
    [type |-> type, clientId |-> clientId, jsonData |-> jsonData, seq |-> 0]

NoData == [type |-> ""]

\* on_multiplayer_event.  The "leaved" branch reads the role flag and slot 0
\* of the roster and writes hostDisconnected, all from the transport thread.
on_multiplayer_event(g, event, clientId, data) ==
    CASE event = "joined" ->
           push(g, NetMsg("PLAYER_JOINED", clientId, NoData))
      [] event = "leaved" ->
           LET wasHost == /\ ~g.isHost
                          /\ g.players[0].active
                          /\ g.players[0].clientId = clientId
           IN  IF wasHost
               THEN push([g EXCEPT !.hostDisconnected = TRUE],
                         NetMsg("HOST_DISCONNECT", clientId, NoData))
               ELSE push(g, NetMsg("PLAYER_LEFT", clientId, NoData))
      [] event = "game" ->
           push(g, NetMsg("GAME_UPDATE", clientId, data))
      [] OTHER -> g

(***************************************************************************)
(* Message handlers (multiplayer.cpp).                                     *)
(***************************************************************************)
ActiveIds(g, i) ==
    IF g.players[i].active /\ g.players[i].clientId # ""
    THEN << g.players[i].clientId >> ELSE <<>>

\* The roster a host puts in a message: the ids of the active slots in slot order.
RosterOf(g) == ActiveIds(g, 0) \o ActiveIds(g, 1) \o ActiveIds(g, 2) \o ActiveIds(g, 3)

handlePlayerJoined(g, clientId) ==
    LET g1 == add_player(g, clientId)
        g2 == IF clientId = g.myClientId
              THEN [g1 EXCEPT !.myIndex = find_player_by_client_id(g1, clientId)]
              ELSE g1
    IN  IF g2.isHost
        THEN Send(g2, [type |-> "state_sync",
                       foodX |-> g2.food.x, foodY |-> g2.food.y,
                       matchStartTime |-> g2.matchStartTime,
                       players |-> RosterOf(g2)])
        ELSE g2

handlePlayerLeft(g, clientId) == remove_player(g, clientId)

sendFullStateSync(g, t) ==
    IF ~g.api \/ g.sessionId = "" \/ ~g.isHost THEN g
    ELSE [Send(g, [type |-> "state_sync",
                   foodX |-> g.food.x, foodY |-> g.food.y,
                   matchStartTime |-> g.matchStartTime,
                   elapsedMs |-> g.syncedElapsedMs,
                   globalPaused |-> (g.pausedByClientId # ""),
                   pausedBy |-> g.pausedByClientId,
                   totalPausedTime |-> g.totalPausedTime,
                   pauseStartTime |-> g.pauseStartTime,
                   players |-> RosterOf(g)])
          EXCEPT !.lastStateSyncSent = t]

handleSyncRequest(g, t) == IF g.isHost THEN sendFullStateSync(g, t) ELSE g

\* The roster loop without the lookup that skips an id already present.
RECURSIVE SyncRoster_no_lookup(_, _, _)
SyncRoster_no_lookup(g, ids, k) ==
    IF k > Len(ids) THEN g
    ELSE LET pId == ids[k]
             g1 == add_player(g, pId)
             g2 == IF pId = g1.myClientId /\ g1.myIndex < 0
                   THEN [g1 EXCEPT !.myIndex = find_player_by_client_id(g1, pId)]
                   ELSE g1
         IN  SyncRoster_no_lookup(g2, ids, k + 1)

\* The roster loop of handleStateSync: ids[k..] are still to be looked at.
RECURSIVE SyncRoster(_, _, _)
SyncRoster(g, ids, k) ==
    IF k > Len(ids) THEN g
    ELSE LET pId == ids[k]
         IN  IF find_player_by_client_id(g, pId) >= 0
             THEN SyncRoster(g, ids, k + 1)
             ELSE LET g1 == add_player(g, pId)
                      g2 == IF pId = g1.myClientId /\ g1.myIndex < 0
                            THEN [g1 EXCEPT !.myIndex = find_player_by_client_id(g1, pId)]
                            ELSE g1
                  IN  SyncRoster(g2, ids, k + 1)

handleStateSync(g, data, t, food) ==
    LET g1 == IF Has(data, "foodX") /\ Has(data, "foodY")
              THEN [g EXCEPT !.food = Pos(ToInt32(data.foodX), ToInt32(data.foodY))]
              ELSE g
        g2 == IF Has(data, "matchStartTime")
              THEN [g1 EXCEPT !.matchStartTime = U32(data.matchStartTime)]
              ELSE g1
        g3 == IF Has(data, "elapsedMs")
              THEN [g2 EXCEPT !.syncedElapsedMs = U32(data.elapsedMs)]
              ELSE g2
        g4 == IF Has(data, "gameState") /\ data.gameState \in {"PLAYING", "LOBBY", "MATCH_END"}
              THEN onStateChange(g3, data.gameState, t, food)
              ELSE g3
        g5 == IF Has(data, "globalPaused") /\ Has(data, "pausedBy")
              THEN LET a == IF Has(data, "totalPausedTime")
                            THEN [g4 EXCEPT !.totalPausedTime = U32(data.totalPausedTime)]
                            ELSE g4
                       b == IF Has(data, "pauseStartTime")
                            THEN [a EXCEPT !.pauseStartTime = U32(data.pauseStartTime)]
                            ELSE a
                       c == [b EXCEPT !.players = [i \in Slots |->
                                 IF b.players[i].active
                                 THEN [b.players[i] EXCEPT !.paused = data.globalPaused]
                                 ELSE b.players[i]]]
                       d == onStateChange(c, IF data.globalPaused THEN "PAUSED" ELSE "PLAYING",
                                          t, food)
                   IN  [d EXCEPT !.pausedByClientId =
                            IF data.globalPaused THEN data.pausedBy ELSE ""]
              ELSE g4
    IN  IF Has(data, "players") THEN SyncRoster(g5, data.players, 1) ELSE g5

\* The body loop of update_remote_player, from segment k on with acc read so
\* far: "reject" as soon as a segment is outside the grid, else the segments
\* read.  A segment without an integer x and an integer y is passed over.
\* The loop is written out over the indices of the array.
SegmentPos(seg) == Pos(ToInt32(seg.x), ToInt32(seg.y))

Readable(segs, k) ==
    {j \in k .. Len(segs) : Has(segs[j], "x") /\ Has(segs[j], "y")}

\* The readable segments with an index in 1 .. last, in the order of the array.
ReadUpTo(segs, k, last) ==
    LET readable == Readable(segs, k)
        read == SelectSeq([j \in 1 .. last |-> j], LAMBDA j : j \in readable)
    IN  [n \in 1 .. Len(read) |-> SegmentPos(segs[read[n]])]

\* The body loop pushing every segment to the front.
ReadBody_prepend(segs, k, acc) ==
    LET outside == {j \in Readable(segs, k) : ~InGrid(SegmentPos(segs[j]))}
    IN  IF outside = {}
        THEN [ok |-> TRUE, body |-> Reverse(ReadUpTo(segs, k, Len(segs))) \o acc]
        ELSE [ok |-> FALSE, body |-> acc]

ReadBody(segs, k, acc) ==
    LET outside == {j \in Readable(segs, k) : ~InGrid(SegmentPos(segs[j]))}
    IN  IF outside = {}
        THEN [ok |-> TRUE, body |-> acc \o ReadUpTo(segs, k, Len(segs))]
        ELSE LET first == CHOOSE j \in outside : \A i \in outside : j <= i
             IN  [ok |-> FALSE, body |-> acc \o ReadUpTo(segs, k, first - 1)]

update_remote_player(g, clientId, data) ==
    LET idx == find_player_by_client_id(g, clientId)
    IN  IF idx < 0 \/ g.players[idx].snake = <<>> THEN g
        ELSE
        LET s0 == g.players[idx].snake[1]
            rd == IF Has(data, "body") /\ Len(data.body) > 0
                  THEN ReadBody(data.body, 1, <<>>)
                  ELSE [ok |-> TRUE, body |-> <<>>]
        IN  IF ~rd.ok \/ Len(rd.body) > BODY_CEILING THEN g
            ELSE
            LET s1 == IF rd.body # <<>> THEN [s0 EXCEPT !.body = rd.body] ELSE s0
                s2 == IF Has(data, "score") /\ ToInt32(data.score) >= 0
                                            /\ ToInt32(data.score) <= 10000
                      THEN [s1 EXCEPT !.score = ToInt32(data.score)] ELSE s1
                s3 == IF Has(data, "alive") THEN [s2 EXCEPT !.alive = data.alive] ELSE s2
            IN  [g EXCEPT !.players[idx].snake = << s3 >>,
                          !.players[idx].paused =
                              IF Has(data, "paused") THEN data.paused ELSE @]

handleHostDisconnect(g, t, food) == onStateChange(g, "MENU", t, food)

\* The switch of processNetworkMessages on one popped message.
dispatch(g, msg, t, food) ==
    CASE msg.type = "HOST_DISCONNECT" -> handleHostDisconnect(g, t, food)
      [] msg.type = "PLAYER_JOINED" -> handlePlayerJoined(g, msg.clientId)
      [] msg.type = "PLAYER_LEFT" -> handlePlayerLeft(g, msg.clientId)
      [] msg.type = "GAME_UPDATE" ->
           LET data == msg.jsonData
               messageType == IF Has(data, "type") THEN data.type ELSE ""
           IN  CASE messageType = "sync_request" -> handleSyncRequest(g, t)
                 [] messageType = "heartbeat" -> g
                 [] messageType = "state_sync" -> handleStateSync(g, data, t, food)
                 [] OTHER -> IF msg.clientId # g.myClientId
                             THEN update_remote_player(g, msg.clientId, data)
                             ELSE g
      [] OTHER -> g

(***************************************************************************)
(* Match timer and winner resolution: Game::checkMatchTimer.               *)
(***************************************************************************)
\* The first loop (game.cpp:637-653), from slot i on: the longest body.
RECURSIVE LongestFrom(_, _, _)
LongestFrom(g, i, acc) ==
    IF i >= MAX_PLAYERS THEN acc
    ELSE IF ~g.players[i].active \/ g.players[i].snake = <<>>
    THEN LongestFrom(g, i + 1, acc)
    ELSE LET length == Len(g.players[i].snake[1].body)
         IN  IF length > acc.maxLength
             THEN LongestFrom(g, i + 1, [maxLength |-> length, winnerIndex |-> i,
                                         tiedPlayers |-> << i >>])
             ELSE IF length = acc.maxLength /\ acc.maxLength > 0
             THEN LongestFrom(g, i + 1, [acc EXCEPT !.tiedPlayers = Append(@, i)])
             ELSE LongestFrom(g, i + 1, acc)

\* The tie-breaker loop (game.cpp:656-668), from the k-th tied player on.
RECURSIVE HighestScoreFrom(_, _, _, _)
HighestScoreFrom(g, tied, k, acc) ==
    IF k > Len(tied) THEN acc
    ELSE LET score == g.players[tied[k]].snake[1].score
         IN  IF score > acc.maxScore
             THEN HighestScoreFrom(g, tied, k + 1,
                                   [maxScore |-> score, winnerIndex |-> tied[k]])
             ELSE HighestScoreFrom(g, tied, k + 1, acc)

findWinner(g) ==
    LET first == LongestFrom(g, 0, [maxLength |-> 0, winnerIndex |-> -1,
                                    tiedPlayers |-> <<>>])
    IN  IF Len(first.tiedPlayers) > 1
        THEN HighestScoreFrom(g, first.tiedPlayers, 1,
                              [maxScore |-> -1, winnerIndex |-> -1]).winnerIndex
        ELSE first.winnerIndex

\* Elapsed match time as the host computes it at time t (game.cpp:596-601).
elapsedMsAt(g, t) ==
    LET currentPausedTime ==
            IF g.state = "PAUSED" /\ g.pauseStartTime > 0
            THEN U32(g.totalPausedTime + U32(t - g.pauseStartTime))
            ELSE g.totalPausedTime
    IN  U32(U32(t - g.matchStartTime) - currentPausedTime)

checkMatchTimer(g, t, food) ==
    IF g.state = "MATCH_END" THEN g
    ELSE IF g.api /\ ~g.isHost THEN g
    ELSE LET elapsedMs == elapsedMsAt(g, t)
             g1 == [g EXCEPT !.syncedElapsedMs = elapsedMs]
             g2 == IF g1.isHost /\ g1.api /\ U32(t - g1.lastTimerBroadcast) >= TIMER_BROADCAST_MS
                   THEN [sendGameMessage(g1, [type |-> "time_sync",
                                              elapsedMs |-> elapsedMs,
                                              totalPausedTime |-> g1.totalPausedTime])
                         EXCEPT !.lastTimerBroadcast = t]
                   ELSE g1
         IN  IF elapsedMs \div 1000 < MATCH_DURATION_SECONDS THEN g2
             ELSE LET g3 == IF g2.isHost /\ g2.api
                            THEN sendGameMessage(g2, [type |-> "state_sync",
                                                      gameState |-> "MATCH_END"])
                            ELSE g2
                      g4 == changeState(g3, "MATCH_END", FALSE, t, food)
                  IN  [g4 EXCEPT !.winnerIndex = findWinner(g4)]

(***************************************************************************)
(* Game::resetMatch.  spawns[i] is the position getRandomSpawnPosition     *)
(* returned for slot i, food the cell Food::spawn drew.                    *)
(***************************************************************************)
\* resetMatch without the setScore(0) after Snake::reset.
resetMatch_penalised(g, t, spawns, food) ==
    LET g1 == [g EXCEPT !.players = [i \in Slots |->
                   IF isValid(g, i)
                   THEN [g.players[i] EXCEPT !.snake =
                            << SnakeReset(g.players[i].snake[1], spawns[i]) >>]
                   ELSE g.players[i]],
               !.winnerIndex = -1,
               !.matchStartTime = t,
               !.totalPausedTime = 0,
               !.pauseStartTime = 0,
               !.syncedElapsedMs = 0,
               !.food = food]
    IN  changeState(g1, "PLAYING", FALSE, t, food)

resetMatch(g, t, spawns, food) ==
    LET g1 == [g EXCEPT !.players = [i \in Slots |->
                   IF isValid(g, i)
                   THEN [g.players[i] EXCEPT !.snake =
                            << [SnakeReset(g.players[i].snake[1], spawns[i])
                                EXCEPT !.score = 0] >>]
                   ELSE g.players[i]],
               !.winnerIndex = -1,
               !.matchStartTime = t,
               !.totalPausedTime = 0,
               !.pauseStartTime = 0,
               !.syncedElapsedMs = 0,
               !.food = food]
    IN  changeState(g1, "PLAYING", FALSE, t, food)

(***************************************************************************)
(* Game::updatePlayers.  Only the host and the single player simulate.     *)
(* Every snake is moved against the occupancy map built before the first   *)
(* move; then a snake that collided is respawned at spawns[i], the cell    *)
(* getRandomSpawnPosition returned for it, and one whose head was on the   *)
(* food grows, the food going to the cell Food::spawn drew.                *)
(* NetworkManager::broadcastGameState, called on the way, is declared in   *)
(* multiplayer.h and defined in no source file: it adds nothing to out.    *)
(***************************************************************************)
Cells(body) == {body[k] : k \in 1 .. Len(body)}

\* Game::buildCollisionMap
buildCollisionMap(g) ==
    UNION {Cells(g.players[k].snake[1].body) : k \in {i \in Slots : isValid(g, i)}}

\* What the two phases make of the snake of slot i.
MovePlayer(g, i, occupiedPositions, spawn) ==
    LET snake == g.players[i].snake[1]
        oldHead == snake.body[1]
        oldTail == snake.body[Len(snake.body)]
        willGrow == oldHead = g.food
        after == SnakeUpdate(snake)
        newHead == after.body[1]
        collision == \/ ~InGrid(newHead)
                     \/ /\ newHead \in occupiedPositions
                        /\ willGrow \/ newHead # oldTail
    IN  IF newHead = oldHead THEN [snake |-> after, ate |-> FALSE]
        ELSE IF collision THEN [snake |-> SnakeReset(after, spawn), ate |-> FALSE]
        ELSE IF willGrow THEN [snake |-> grow(after), ate |-> TRUE]
        ELSE [snake |-> after, ate |-> FALSE]

\* updatePlayers without the test of the role.
updatePlayers_every_role(g, spawns, food) ==
    IF g.state = "PAUSED" THEN g
    ELSE LET occupiedPositions == buildCollisionMap(g)
             moving == {i \in Slots : /\ isValid(g, i)
                                      /\ g.players[i].snake[1].alive
                                      /\ g.players[i].snake[1].body # <<>>}
             move == [i \in moving |-> MovePlayer(g, i, occupiedPositions, spawns[i])]
         IN  [g EXCEPT !.players = [i \in Slots |->
                          IF i \in moving
                          THEN [g.players[i] EXCEPT !.snake = << move[i].snake >>]
                          ELSE g.players[i]],
                       !.food = IF \E i \in moving : move[i].ate THEN food ELSE @]

updatePlayers(g, spawns, food) ==
    IF g.isHost \/ ~g.api
    THEN IF g.state = "PAUSED" THEN g
         ELSE LET occupiedPositions == buildCollisionMap(g)
                  moving == {i \in Slots : /\ isValid(g, i)
                                           /\ g.players[i].snake[1].alive
                                           /\ g.players[i].snake[1].body # <<>>}
                  move == [i \in moving |->
                              MovePlayer(g, i, occupiedPositions, spawns[i])]
              IN  [g EXCEPT !.players = [i \in Slots |->
                               IF i \in moving
                               THEN [g.players[i] EXCEPT !.snake = << move[i].snake >>]
                               ELSE g.players[i]],
                            !.food = IF \E i \in moving : move[i].ate THEN food ELSE @]
    ELSE g

(***************************************************************************)
(* NetworkManager::initialize, hostSession, listSessions, joinSession.     *)
(* rcOk is the transport's answer; me the peer id and session the session  *)
(* id the transport hands out.                                             *)
(***************************************************************************)
initialize(g, rcOk) ==
    IF g.api THEN [ok |-> FALSE, g |-> g]
    ELSE IF ~rcOk THEN [ok |-> FALSE, g |-> g]
    ELSE [ok |-> TRUE, g |-> [g EXCEPT !.api = TRUE]]

\* hostSession storing the session info before it looks at the return code.
hostSession_store_first(g, rcOk, session, me, t) ==
    LET g1 == [g EXCEPT !.sessionId = session, !.myClientId = me, !.isHost = TRUE]
    IN  IF ~g.api \/ ~rcOk THEN [ok |-> FALSE, g |-> g1]
        ELSE LET g2 == add_player([g1 EXCEPT !.lastStateSyncSent = t], me)
             IN  [ok |-> TRUE,
                  g |-> [g2 EXCEPT !.myIndex = find_player_by_client_id(g2, me),
                                   !.matchStartTime = t]]

hostSession(g, rcOk, session, me, t) ==
    IF ~g.api \/ ~rcOk THEN [ok |-> FALSE, g |-> g]
    ELSE LET g1 == [g EXCEPT !.sessionId = session, !.myClientId = me,
                             !.isHost = TRUE, !.lastStateSyncSent = t]
             g2 == add_player(g1, me)
         IN  [ok |-> TRUE,
              g |-> [g2 EXCEPT !.myIndex = find_player_by_client_id(g2, me),
                               !.matchStartTime = t]]

listSessions(g, rcOk, sessionList) ==
    IF ~g.api \/ ~rcOk THEN [ok |-> FALSE, g |-> g]
    ELSE [ok |-> TRUE, g |-> [g EXCEPT !.availableSessions = sessionList]]

joinSession(g, rcOk, session, me) ==
    IF ~g.api \/ ~rcOk THEN [ok |-> FALSE, g |-> g]
    ELSE [ok |-> TRUE,
          g |-> [g EXCEPT !.sessionId = session, !.myClientId = me,
                          !.isHost = FALSE, !.myIndex = -1]]

(***************************************************************************)
(* Keyboard handlers (game.cpp:375-586).                                   *)
(***************************************************************************)
navigateMenu(selection, maxItems, up) ==
    IF up THEN (selection - 1 + maxItems) % maxItems
    ELSE (selection + 1) % maxItems

handleMenuInput(g, key, t, rcOk, startPos, food) ==
    CASE key = "UP" -> [g EXCEPT !.menuSelection = navigateMenu(@, 3, TRUE)]
      [] key = "DOWN" -> [g EXCEPT !.menuSelection = navigateMenu(@, 3, FALSE)]
      [] key = "RETURN" ->
           CASE g.menuSelection = 0 ->
                  LET g1 == [g EXCEPT !.players[0].snake = << NewSnake(startPos) >>,
                                      !.players[0].active = TRUE,
                                      !.players[0].clientId = "local_player",
                                      !.myIndex = 0,
                                      !.matchStartTime = t,
                                      !.syncedElapsedMs = 0,
                                      !.totalPausedTime = 0,
                                      !.pauseStartTime = 0,
                                      !.food = food]
                  IN  changeState(g1, "PLAYING", FALSE, t, food)
             [] g.menuSelection = 1 ->
                  LET r == initialize(g, rcOk)
                  IN  IF r.ok
                      THEN [changeState(r.g, "MULTIPLAYER", FALSE, t, food)
                            EXCEPT !.inputHandler = "handleMultiplayerInput"]
                      ELSE r.g
             [] OTHER -> [g EXCEPT !.quit = TRUE]
      [] key = "ESCAPE" -> [g EXCEPT !.quit = TRUE]
      [] OTHER -> g

handleMultiplayerInput(g, key, t, rcOk, sessionList, me, food) ==
    CASE key = "h" ->
           IF g.api /\ g.sessionId = ""
           THEN LET r == hostSession(g, rcOk, "S", me, t)
                IN  IF r.ok
                    THEN [changeState(r.g, "LOBBY", FALSE, t, food)
                          EXCEPT !.inputHandler = "handleLobbyInput"]
                    ELSE r.g
           ELSE g
      [] key = "l" ->
           IF g.api /\ g.sessionId = ""
           THEN listSessions([g EXCEPT !.sessionSelection = 0], rcOk, sessionList).g
           ELSE g
      [] key = "UP" ->
           IF g.availableSessions # <<>>
           THEN [g EXCEPT !.sessionSelection =
                     navigateMenu(@, Len(g.availableSessions), TRUE)]
           ELSE g
      [] key = "DOWN" ->
           IF g.availableSessions # <<>>
           THEN [g EXCEPT !.sessionSelection =
                     navigateMenu(@, Len(g.availableSessions), FALSE)]
           ELSE g
      [] key = "RETURN" ->
           IF g.api /\ g.sessionId = "" /\ g.availableSessions # <<>>
              /\ g.sessionSelection < Len(g.availableSessions)
           THEN LET r == joinSession(g, rcOk, g.availableSessions[g.sessionSelection + 1], me)
                IN  IF r.ok
                    THEN [changeState(r.g, "LOBBY", FALSE, t, food)
                          EXCEPT !.inputHandler = "handleLobbyInput"]
                    ELSE r.g
           ELSE g
      [] key = "ESCAPE" -> changeState(g, "MENU", FALSE, t, food)
      [] OTHER -> g

handleLobbyInput(g, key, t, food) ==
    CASE key = "SPACE" ->
           IF g.isHost THEN changeState(g, "COUNTDOWN", FALSE, t, food) ELSE g
      [] key = "ESCAPE" -> changeState(g, "MENU", FALSE, t, food)
      [] OTHER -> g

\* A steering key is named after its direction.  A client also calls
\* NetworkManager::sendPlayerInput, which multiplayer.h declares and no
\* source file defines: it adds nothing to out.
handlePlayingInput(g, key, t, food) ==
    IF ~(hasMe(g) /\ g.players[g.myIndex].snake # <<>>) THEN g
    ELSE IF key \in {"p", "ESCAPE"} THEN changeState(g, "PAUSED", FALSE, t, food)
    ELSE IF key \in {"UP", "DOWN", "LEFT", "RIGHT"}
    THEN [g EXCEPT !.players[g.myIndex].snake = << setDirection(@[1], key) >>]
    ELSE g

handlePausedInput(g, key, t, spawns, food) ==
    CASE key = "UP" -> [g EXCEPT !.pauseMenuSelection = navigateMenu(@, 3, TRUE)]
      [] key = "DOWN" -> [g EXCEPT !.pauseMenuSelection = navigateMenu(@, 3, FALSE)]
      [] key = "RETURN" ->
           CASE g.pauseMenuSelection = 0 -> changeState(g, "PLAYING", FALSE, t, food)
             [] g.pauseMenuSelection = 1 ->
                  IF ~g.api \/ g.isHost THEN resetMatch(g, t, spawns, food) ELSE g
             [] g.pauseMenuSelection = 2 -> changeState(g, "MENU", FALSE, t, food)
             [] OTHER -> g
      [] key \in {"ESCAPE", "p"} -> changeState(g, "PLAYING", FALSE, t, food)
      [] OTHER -> g

handleMatchEndInput(g, key, t, spawns, food) ==
    CASE key = "r" -> resetMatch(g, t, spawns, food)
      [] key = "ESCAPE" -> changeState(g, "MENU", FALSE, t, food)
      [] OTHER -> g

(***************************************************************************)
(* Game::update after the drain loop (game.cpp:94-136).                    *)
(***************************************************************************)
sendPeriodicStateSync(g, t) ==
    IF ~g.isHost THEN g
    ELSE IF U32(t - g.lastStateSyncSent) >= STATE_SYNC_MS THEN sendFullStateSync(g, t)
    ELSE g

\* From the countdown check on: the match timer, and the players once the
\* update interval has passed since the last such update.
updateGame(g, t, spawns, food) ==
    IF g.state = "COUNTDOWN"
    THEN IF U32(t - g.countdownStartTime) >= COUNTDOWN_MS
         THEN changeState(g, "PLAYING", FALSE, t, food)
         ELSE g
    ELSE IF g.state \notin {"PLAYING", "PAUSED"} THEN g
    ELSE LET g1 == IF g.state = "PLAYING" THEN checkMatchTimer(g, t, food) ELSE g
         IN  IF U32(t - g1.lastUpdate) >= INITIAL_SPEED_MS
             THEN IF g1.state = "PLAYING"
                  THEN updatePlayers([g1 EXCEPT !.lastUpdate = t], spawns, food)
                  ELSE [g1 EXCEPT !.lastUpdate = t]
             ELSE g1

\* What follows processMessages when the network was connected on entry.
updateAfterDrain(g, t, spawns, food) ==
    IF g.connectionLost THEN shutdown(g)
    ELSE updateGame(sendPeriodicStateSync(g, t), t, spawns, food)

(***************************************************************************)
(* The processes and what the environment can do.                          *)
(***************************************************************************)
\* Instants of the millisecond clock the model visits.
Times == {1, 3002, 123003}

\* Cells the random draws of Food::spawn and getRandomSpawnPosition return.
FoodDraws == {Pos(39, 29)}
SpawnDraws == {Pos(2, 0), Pos(39, 29)}

\* Answers of mp_api_list.
SessionLists == {<<>>, << "S" >>}

\* Peer ids the transport hands out: the process "me" of the open model and
\* two remote peers, "hst" being the host of every session "me" joins.
HostId == "hst"
OtherId == "oth"

NoError == [from |-> "", to |-> "", fromNetwork |-> FALSE]
NoPause == [t |-> -1, total |-> 0, elapsed |-> 0]

\* The Game object after Game::Game, built at time 1 (lastUpdate), with the
\* food cell the constructor drew.
NewGame(food) ==
    [state |-> "MENU", inputHandler |-> "handleMenuInput", quit |-> FALSE,
     menuSelection |-> 0, pauseMenuSelection |-> 0, sessionSelection |-> 0,
     countdownStartTime |-> 0, food |-> food, lastTimerBroadcast |-> 0,
     lastUpdate |-> 1,
     api |-> FALSE, sessionId |-> "", myClientId |-> "", isHost |-> FALSE,
     hostDisconnected |-> FALSE, connectionLost |-> FALSE,
     messageQueue |-> <<>>, availableSessions |-> <<>>, lastStateSyncSent |-> 0,
     matchStartTime |-> 0, syncedElapsedMs |-> 0, totalPausedTime |-> 0,
     pauseStartTime |-> 0, winnerIndex |-> -1, pausedByClientId |-> "",
     players |-> [i \in Slots |-> EmptySlot], myIndex |-> -1,
     \* position of the tick thread in Game::run / Game::update
     pc |-> "idle",
     \* messages sent during the current step
     out |-> <<>>,
     \* history, not read by the program: the last rejected transition, the
     \* pushes and dispatches so far, the delivery of the host's "leaved"
     \* event, the local pause in progress, and the pause / resume requests
     \* made at the keyboard so far with the kind of the last one
     lastError |-> NoError, pushed |-> 0, dispatched |-> <<>>,
     hostLeft |-> "no", hostLeftSeq |-> 0, localPause |-> NoPause,
     requests |-> 0, lastRequest |-> "none"]

\* The start of a step of the tick thread.
Fresh(g) ==
    [g EXCEPT !.lastError = NoError,
              !.hostLeft = IF @ = "drained" THEN "no" ELSE @]

InSession(g) == g.api /\ g.sessionId # ""

\* The history kept along a step old -> new of the tick thread at time t.
\* When the step entered PAUSED by a local request (local): the time, and
\* totalPausedTime and the elapsed match time right before.  A "leaved" of
\* the host still queued when the peer leaves the session is forgotten.
Observe(old, new, t, local) ==
    [new EXCEPT !.out = <<>>,
                !.localPause =
                    IF new.state # "PAUSED" THEN NoPause
                    ELSE IF old.state = "PAUSED" THEN @
                    ELSE IF local THEN [t |-> t, total |-> old.totalPausedTime,
                                        elapsed |-> elapsedMsAt(old, t)]
                    ELSE NoPause,
                !.hostLeft = IF @ = "queued" /\ ~InSession(new) THEN "no" ELSE @,
                !.requests = IF local /\ {old.state, new.state} = {"PLAYING", "PAUSED"}
                             THEN @ + 1 ELSE @,
                !.lastRequest =
                    IF local /\ {old.state, new.state} = {"PLAYING", "PAUSED"}
                    THEN (IF new.state = "PAUSED" THEN "pause" ELSE "unpause")
                    ELSE @]

Event(event, clientId, data) == [event |-> event, clientId |-> clientId, data |-> data]

RECURSIVE AsEvents(_, _, _)
AsEvents(from, messages, k) ==
    IF k > Len(messages) THEN <<>>
    ELSE << Event("game", from, messages[k]) >> \o AsEvents(from, messages, k + 1)

\* What the transport makes of a step of p for another peer q of p's
\* session: p's broadcasts as "game" events, then "leaved" if p left.
Relayed(p, old, new, q) ==
    IF ~(InSession(old) /\ InSession(q) /\ q.sessionId = old.sessionId) THEN <<>>
    ELSE AsEvents(p, new.out, 1)
         \o (IF ~InSession(new) THEN << Event("leaved", p, NoData) >> ELSE <<>>)

\* A step of the tick thread of p that leaves p's Game as new.
Step(p, new, local) ==
    /\ peer' = [peer EXCEPT ![p] = Observe(peer[p], new, now, local)]
    /\ wire' = [q \in DOMAIN wire |->
                   IF q = p THEN wire[q]
                   ELSE wire[q] \o Relayed(p, peer[p], new, peer[q])]
    /\ \A q \in DOMAIN wire : Len(wire'[q]) <= MaxWire

\* Game::run calls handleInput only while the loop condition !quit held; key
\* events polled in the same frame after the one that set quit are left out.
CanInput(g, handler) == g.pc = "idle" /\ ~g.quit /\ g.inputHandler = handler

(***************************************************************************)
(* Game::handleInput: one key event, dispatched through inputHandler.      *)
(***************************************************************************)
MenuKey(p) ==
    /\ CanInput(peer[p], "handleMenuInput")
    /\ \E key \in {"DOWN", "RETURN", "ESCAPE"}, rcOk \in BOOLEAN,
          startPos \in SpawnDraws, food \in FoodDraws :
          Step(p, handleMenuInput(Fresh(peer[p]), key, now, rcOk, startPos, food), TRUE)
    /\ UNCHANGED now

MultiplayerKey(p) ==
    /\ CanInput(peer[p], "handleMultiplayerInput")
    /\ \E key \in {"h", "l", "DOWN", "RETURN", "ESCAPE"}, rcOk \in BOOLEAN,
          sessionList \in SessionLists, food \in FoodDraws :
          Step(p, handleMultiplayerInput(Fresh(peer[p]), key, now, rcOk,
                                         sessionList, p, food), TRUE)
    /\ UNCHANGED now

LobbyKey(p) ==
    /\ CanInput(peer[p], "handleLobbyInput")
    /\ \E key \in {"SPACE", "ESCAPE"}, food \in FoodDraws :
          Step(p, handleLobbyInput(Fresh(peer[p]), key, now, food), TRUE)
    /\ UNCHANGED now

PlayingKey(p) ==
    /\ CanInput(peer[p], "handlePlayingInput")
    /\ peer[p].requests < MaxRequests
    /\ \E key \in {"p"}, food \in FoodDraws :
          Step(p, handlePlayingInput(Fresh(peer[p]), key, now, food), TRUE)
    /\ UNCHANGED now

PausedKey(p) ==
    /\ CanInput(peer[p], "handlePausedInput")
    /\ peer[p].requests < MaxRequests
    /\ \E key \in {"RETURN", "p"},
          spawn \in SpawnDraws, food \in FoodDraws :
          Step(p, handlePausedInput(Fresh(peer[p]), key, now, [i \in Slots |-> spawn], food), TRUE)
    /\ UNCHANGED now

MatchEndKey(p) ==
    /\ CanInput(peer[p], "handleMatchEndInput")
    /\ \E key \in {"r", "ESCAPE"},
          spawn \in SpawnDraws, food \in FoodDraws :
          Step(p, handleMatchEndInput(Fresh(peer[p]), key, now, [i \in Slots |-> spawn], food), TRUE)
    /\ UNCHANGED now

(***************************************************************************)
(* Game::update, cut at the queue's lock: entering the drain loop, one     *)
(* iteration of it (pop and dispatch), and leaving it when pop finds the   *)
(* queue empty, with the rest of update.  After quit the loop of Game::run *)
(* ends with this update and ~Game shuts the network down.                 *)
(***************************************************************************)
EndOfLoop(g) ==
    IF g.quit THEN [shutdown(g) EXCEPT !.pc = "exited"] ELSE [g EXCEPT !.pc = "idle"]

UpdateOffline(p) ==
    /\ peer[p].pc = "idle"
    /\ ~peer[p].api
    /\ \E spawn \in SpawnDraws, food \in FoodDraws :
          Step(p, EndOfLoop(updateGame(Fresh(peer[p]), now, [i \in Slots |-> spawn], food)),
               FALSE)
    /\ UNCHANGED now

BeginDrain(p) ==
    /\ peer[p].pc = "idle"
    /\ peer[p].api
    /\ Step(p, [Fresh(peer[p]) EXCEPT !.pc = "drain"], FALSE)
    /\ UNCHANGED now

DrainPop(p) ==
    /\ peer[p].pc = "drain"
    /\ peer[p].messageQueue # <<>>
    /\ \E food \in FoodDraws :
          LET g == peer[p]
              msg == popFront(g.messageQueue)
              g1 == [g EXCEPT !.messageQueue = popRest(@),
                              !.lastError = NoError,
                              !.dispatched = Append(@, msg.seq),
                              !.hostLeft = IF msg.seq = g.hostLeftSeq /\ @ = "queued"
                                           THEN "dispatched" ELSE @]
          IN  Step(p, dispatch(g1, msg, now, food), FALSE)
    /\ UNCHANGED now

DrainEnd(p) ==
    /\ peer[p].pc = "drain"
    /\ peer[p].messageQueue = <<>>
    /\ \E spawn \in SpawnDraws, food \in FoodDraws :
          LET g1 == EndOfLoop(updateAfterDrain([peer[p] EXCEPT !.lastError = NoError],
                                               now, [i \in Slots |-> spawn], food))
          IN  Step(p, [g1 EXCEPT !.hostLeft = IF @ = "dispatched" THEN "drained" ELSE @],
                   FALSE)
    /\ UNCHANGED now

Tick ==
    /\ \E t \in Times : t > now /\ now' = t
    /\ UNCHANGED <<peer, wire>>

(***************************************************************************)
(* The open model: one process, "me", and a transport that may deliver any *)
(* event of EnvEvents while "me" is in a session.                          *)
(***************************************************************************)
StartMsg == [type |-> "state_sync", gameState |-> "PLAYING", matchStartTime |-> 1,
             elapsedMs |-> 0, totalPausedTime |-> 0, foodX |-> 0, foodY |-> 0]
EndMsg == [type |-> "state_sync", gameState |-> "MATCH_END"]
PauseMsg(by, start) ==
    [type |-> "state_sync", globalPaused |-> TRUE, pausedBy |-> by,
     totalPausedTime |-> 0, pauseStartTime |-> start]
UnpauseMsg(by, total) ==
    [type |-> "state_sync", globalPaused |-> FALSE, pausedBy |-> by,
     totalPausedTime |-> total, pauseStartTime |-> 0]
RosterMsg(ids) ==
    [type |-> "state_sync", foodX |-> 0, foodY |-> 0, matchStartTime |-> 1,
     players |-> ids]

\* What the transport can deliver to g: a host hears of the peer "oth", a
\* client hears of its host "hst" and of "oth".
EnvEvents(g) ==
    IF g.isHost
    THEN {Event("joined", OtherId, NoData), Event("leaved", OtherId, NoData),
          Event("game", OtherId, PauseMsg(OtherId, 1)),
          Event("game", OtherId, UnpauseMsg(OtherId, 1))}
    ELSE {Event("game", HostId, RosterMsg(<< HostId, "me" >>)),
          Event("game", HostId, StartMsg),
          Event("leaved", HostId, NoData),
          Event("game", OtherId, PauseMsg(OtherId, 1))}

\* The transport thread calls on_multiplayer_event with event e.
Callback(p, e) ==
    LET g == peer[p]
        g1 == on_multiplayer_event(g, e.event, e.clientId, e.data)
        aboutHost == e.event = "leaved" /\ e.clientId = HostId /\ ~g.isHost
                     /\ g.hostLeft = "no"
    IN  /\ Len(g.messageQueue) < MaxQueue
        /\ peer' = [peer EXCEPT ![p] =
                        IF aboutHost
                        THEN [g1 EXCEPT !.hostLeft = "queued", !.hostLeftSeq = g1.pushed]
                        ELSE g1]

EnvEvent(p) ==
    /\ InSession(peer[p])
    /\ peer[p].pushed < MaxPushes
    /\ \E e \in EnvEvents(peer[p]) : Callback(p, e)
    /\ UNCHANGED <<now, wire>>

Init ==
    /\ peer \in [{"me"} -> {NewGame(food) : food \in FoodDraws}]
    /\ now = 1
    /\ wire = [p \in {"me"} |-> <<>>]

Next ==
    \/ \E p \in DOMAIN peer : MenuKey(p)
    \/ \E p \in DOMAIN peer : MultiplayerKey(p)
    \/ \E p \in DOMAIN peer : LobbyKey(p)
    \/ \E p \in DOMAIN peer : PlayingKey(p)
    \/ \E p \in DOMAIN peer : PausedKey(p)
    \/ \E p \in DOMAIN peer : MatchEndKey(p)
    \/ \E p \in DOMAIN peer : UpdateOffline(p)
    \/ \E p \in DOMAIN peer : BeginDrain(p)
    \/ \E p \in DOMAIN peer : DrainPop(p)
    \/ \E p \in DOMAIN peer : DrainEnd(p)
    \/ \E p \in DOMAIN peer : EnvEvent(p)
    \/ Tick

Spec == Init /\ [][Next]_vars

(***************************************************************************)
(* The closed model: a host "hst" and a client "cli" in one session, every *)
(* event a peer receives being what the transport made of the other's      *)
(* steps.  It starts when both have gone through the menus, "hst" having   *)
(* hosted session "S" and "cli" listed and joined it, the transport about  *)
(* to tell the host.  The host starts the match and nobody pauses it; a    *)
(* peer that leaves the session is not followed through the menus again.   *)
(***************************************************************************)
ClientId == "cli"

InMultiplayerMenu(food) ==
    handleMenuInput(handleMenuInput(NewGame(food), "DOWN", 1, TRUE, Pos(0, 0), food),
                    "RETURN", 1, TRUE, Pos(0, 0), food)

Hosting(food) ==
    handleMultiplayerInput(InMultiplayerMenu(food), "h", 1, TRUE, <<>>, HostId, food)

Joined(food) ==
    handleMultiplayerInput(
        handleMultiplayerInput(InMultiplayerMenu(food), "l", 1, TRUE, << "S" >>,
                               ClientId, food),
        "RETURN", 1, TRUE, << "S" >>, ClientId, food)

\* The transport thread of p takes the next event off the wire.
Deliver(p) ==
    /\ wire[p] # <<>>
    /\ peer[p].pushed < MaxDeliveries
    /\ IF InSession(peer[p]) THEN Callback(p, Head(wire[p])) ELSE UNCHANGED peer
    /\ wire' = [wire EXCEPT ![p] = Tail(@)]
    /\ UNCHANGED now

PairInit ==
    /\ \E food \in FoodDraws :
          peer = [p \in {HostId, ClientId} |->
                    IF p = HostId THEN Hosting(food) ELSE Joined(food)]
    /\ now = 1
    /\ wire = [p \in {HostId, ClientId} |->
                  IF p = HostId THEN << Event("joined", ClientId, NoData) >> ELSE <<>>]

PairNext ==
    \/ \E p \in DOMAIN peer : LobbyKey(p)
    \/ \E p \in DOMAIN peer : MatchEndKey(p)
    \/ \E p \in DOMAIN peer : BeginDrain(p)
    \/ \E p \in DOMAIN peer : DrainPop(p)
    \/ \E p \in DOMAIN peer : DrainEnd(p)
    \/ \E p \in DOMAIN peer : Deliver(p)
    \/ Tick

PairSpec == PairInit /\ [][PairNext]_vars

(***************************************************************************)
(* The closed model with the pause keys and with progress: the loop of     *)
(* Game::run keeps calling update, the transport thread keeps delivering   *)
(* and the clock keeps running.  Key presses are not forced.               *)
(***************************************************************************)
Pair == {HostId, ClientId}

PauseNext ==
    \/ \E p \in DOMAIN peer : LobbyKey(p)
    \/ \E p \in DOMAIN peer : PlayingKey(p)
    \/ \E p \in DOMAIN peer : PausedKey(p)
    \/ \E p \in DOMAIN peer : BeginDrain(p)
    \/ \E p \in DOMAIN peer : DrainPop(p)
    \/ \E p \in DOMAIN peer : DrainEnd(p)
    \/ \E p \in DOMAIN peer : Deliver(p)
    \/ Tick

PauseSpec ==
    /\ PairInit
    /\ [][PauseNext]_vars
    /\ \A p \in Pair : WF_vars(BeginDrain(p)) /\ WF_vars(Deliver(p))
    /\ WF_vars(Tick)

(***************************************************************************)
(* The closed model over a transport that may fall silent: the loop of     *)
(* Game::run keeps calling update and the clock keeps running, but nothing *)
(* obliges the transport to deliver.                                       *)
(***************************************************************************)
SilentSpec ==
    /\ PairInit /\ [][PairNext]_vars
    /\ \A p \in Pair : WF_vars(BeginDrain(p))
    /\ WF_vars(Tick)

(***************************************************************************)
(* The running match: one process, "me", that is PLAYING as the host of a  *)
(* session with the peer "oth", or as a client of the host "hst", and a    *)
(* transport that delivers the messages of a running match.  The host got  *)
(* there by hosting, hearing "oth" join, pressing SPACE and waiting for    *)
(* the countdown; the client gets there by draining the host's roster and  *)
(* full state sync, which wait in its queue.                               *)
(***************************************************************************)
Silent(g) == [g EXCEPT !.out = <<>>]

\* The payload of sendFullStateSync of a host "hst" that is PLAYING with "me".
FullSyncMsg(food) ==
    [type |-> "state_sync", foodX |-> food.x, foodY |-> food.y,
     matchStartTime |-> 1, elapsedMs |-> 0, globalPaused |-> FALSE, pausedBy |-> "",
     totalPausedTime |-> 0, pauseStartTime |-> 0, players |-> << HostId, "me" >>]

\* The Game objects the steps lead to, one step after the other: each set
\* holds the outcome of one handler applied to the outcomes before it.
HostInMatch(food) ==
    LET lobby == {handleMultiplayerInput(g, "h", 1, TRUE, <<>>, "me", food) :
                      g \in {InMultiplayerMenu(food)}}
        full == {handlePlayerJoined(g, OtherId) : g \in lobby}
        counting == {handleLobbyInput(g, "SPACE", 1, food) : g \in full}
    IN  {Silent(updateGame(g, 3002, PLAYER_SPAWN_POSITIONS, food)) : g \in counting}

\* The client has joined, and the transport has called back with the host's
\* roster and the full state sync of the running match: both wait in the queue.
ClientEntering(food) ==
    LET menu == {handleMultiplayerInput(g, "l", 1, TRUE, << "S" >>, "me", food) :
                     g \in {InMultiplayerMenu(food)}}
        lobby == {handleMultiplayerInput(g, "RETURN", 1, TRUE, << "S" >>, "me", food) :
                      g \in menu}
        called == {on_multiplayer_event(g, "game", HostId, RosterMsg(<< HostId, "me" >>)) :
                       g \in lobby}
    IN  {on_multiplayer_event(g, "game", HostId, FullSyncMsg(food)) : g \in called}

\* send_game_state: the update a peer sends about its own snake.  A segment
\* is an object with x and y; a corrupted one lacks an integer y.
PlayerUpdateMsg(body) ==
    [x |-> 5, y |-> 5, score |-> 10, alive |-> TRUE, paused |-> FALSE, body |-> body]

BodyDraws ==
    { << Pos(5, 5), Pos(4, 5), Pos(3, 5), Pos(2, 5) >>,
      << Pos(5, 5), Pos(GRID_WIDTH, 5) >>,
      << Pos(5, 5), [x |-> 4], Pos(3, 5) >> }

\* send_game_state: head, score and flags of the snake, and its body as an
\* array of objects with x and y; the paused flag is that of the slot which
\* holds the snake.  Nothing is sent outside a session.
send_game_state(g, snake) ==
    IF ~g.api \/ g.sessionId = "" THEN g
    ELSE LET holders == {i \in Slots : g.players[i].active /\ g.players[i].snake = << snake >>}
             flags == [x |-> snake.body[1].x, y |-> snake.body[1].y,
                       score |-> snake.score, alive |-> snake.alive,
                       body |-> [k \in 1 .. Len(snake.body) |->
                                    [x |-> snake.body[k].x, y |-> snake.body[k].y]]]
         IN  IF holders = {} THEN Send(g, flags)
             ELSE LET playerIdx == CHOOSE i \in holders : \A j \in holders : i <= j
                  IN  Send(g, [key \in DOMAIN flags \cup {"paused"} |->
                                  IF key = "paused" THEN g.players[playerIdx].paused
                                  ELSE flags[key]])

\* A body that winds through the rows of the grid, n segments long.
Serpentine(n) ==
    [k \in 1 .. n |->
        LET row == (k - 1) \div GRID_WIDTH
            col == (k - 1) % GRID_WIDTH
        IN  Pos(IF row % 2 = 0 THEN col ELSE GRID_WIDTH - 1 - col, row)]

\* Snakes the peer "oth" may hold when it sends its state: one that has
\* turned a corner, and one segment more than update_remote_player accepts.
SentSnakes ==
    {[NewSnake(Pos(8, 8)) EXCEPT !.body = body, !.direction = "RIGHT",
                                 !.nextDirection = "RIGHT", !.score = 20] :
        body \in {<< Pos(8, 8), Pos(7, 8), Pos(7, 7) >>, Serpentine(BODY_CEILING + 1)}}

\* What the process of "oth", in session "S" with its snake in slot 1, hands
\* to the transport in send_game_state.
SentBy(snake) ==
    LET sender == [NewGame(Pos(0, 0)) EXCEPT
                      !.api = TRUE, !.sessionId = "S", !.myClientId = OtherId,
                      !.players[1] = [snake |-> << snake >>, clientId |-> OtherId,
                                      active |-> TRUE, paused |-> FALSE],
                      !.myIndex = 1]
        sent == send_game_state(sender, snake).out
    IN  sent[Len(sent)]

\* The payloads "oth" sends, by the snake it holds.
Sent == [snake \in SentSnakes |-> SentBy(snake)]

\* The player_input message of the protocol: a requested direction.
InputMsg(dir) == [type |-> "player_input", direction |-> dir]

\* The game_state snapshot of the protocol: food, and body and alive flag of
\* every active actor.
GameStateMsg ==
    [type |-> "game_state", foodX |-> 7, foodY |-> 8,
     players |-> << [index |-> 0, alive |-> FALSE,
                     body |-> << Pos(9, 9), Pos(8, 9) >>] >>,
     matchStartTime |-> 1, elapsedMs |-> 2000]

\* The timer update checkMatchTimer broadcasts.
TimeSyncMsg(elapsedMs) ==
    [type |-> "time_sync", elapsedMs |-> elapsedMs, totalPausedTime |-> 0]

MatchEvents(g) ==
    IF g.isHost
    THEN {Event("game", OtherId, PlayerUpdateMsg(body)) : body \in BodyDraws}
         \cup {Event("game", OtherId, Sent[snake]) : snake \in SentSnakes}
         \cup {Event("game", OtherId, InputMsg("UP"))}
    ELSE {Event("game", HostId, GameStateMsg),
          Event("game", HostId, TimeSyncMsg(2000)),
          Event("game", HostId, PlayerUpdateMsg(<< Pos(9, 9), Pos(8, 9) >>))}

MatchEvent(p) ==
    /\ InSession(peer[p])
    /\ peer[p].pushed < MaxMatchPushes
    /\ \E e \in MatchEvents(peer[p]) : Callback(p, e)
    /\ UNCHANGED <<now, wire>>

\* A steering key pressed while the process plays.
SteerKey(p) ==
    /\ CanInput(peer[p], "handlePlayingInput")
    /\ \E key \in {"UP", "DOWN", "LEFT", "RIGHT"}, food \in FoodDraws :
          Step(p, handlePlayingInput(Fresh(peer[p]), key, now, food), TRUE)
    /\ UNCHANGED now

MatchInit ==
    /\ \E food \in FoodDraws :
          peer \in [{"me"} -> HostInMatch(food) \cup ClientEntering(food)]
    /\ now = 3002
    /\ wire = [p \in {"me"} |-> <<>>]

MatchNext ==
    \/ \E p \in DOMAIN peer : SteerKey(p)
    \/ \E p \in DOMAIN peer : MatchEvent(p)
    \/ \E p \in DOMAIN peer : BeginDrain(p)
    \/ \E p \in DOMAIN peer : DrainPop(p)
    \/ \E p \in DOMAIN peer : DrainEnd(p)
    \/ Tick

MatchSpec == MatchInit /\ [][MatchNext]_vars

(***************************************************************************)
(* Properties.                                                             *)
(***************************************************************************)
Procs == DOMAIN peer

\* C1: changeState(to), called in a state from which isValidTransition does
\* not admit `to`, is rejected: the state, the pause timing, pausedByClientId,
\* the roster, the input handler and every other field stay as they were and
\* nothing is sent; only the error line is written.  Checked for every
\* reachable Game, every target state and both values of fromNetwork.
C1_InvalidTransitionRejected ==
    \A p \in Procs : \A to \in GameStates, fromNetwork \in BOOLEAN, food \in FoodDraws :
        ~isValidTransition(peer[p].state, to) =>
            LET h == changeState(peer[p], to, fromNetwork, now, food)
            IN  /\ h.state = peer[p].state
                /\ h.out = peer[p].out
                /\ h.lastError = ErrorLine(peer[p].state, to, fromNetwork)
                /\ [h EXCEPT !.lastError = peer[p].lastError] = peer[p]

\* A run in which a transition was rejected while a pause was pending.
C1_Witness ==
    \E p \in Procs : /\ peer[p].lastError # NoError
                      /\ peer[p].state = peer[p].lastError.from
                      /\ peer[p].pausedByClientId # ""

\* The table as the specification words it, "singleplayer start" read as
\* any of MENU -> SINGLEPLAYER, MENU -> PLAYING and SINGLEPLAYER -> PLAYING.
SpecifiedTable ==
    {<< "MENU", "SINGLEPLAYER" >>, << "MENU", "PLAYING" >>, << "SINGLEPLAYER", "PLAYING" >>,
     << "MENU", "MULTIPLAYER" >>,
     << "MULTIPLAYER", "LOBBY" >>, << "MULTIPLAYER", "MENU" >>,
     << "LOBBY", "PLAYING" >>, << "LOBBY", "COUNTDOWN" >>, << "COUNTDOWN", "PLAYING" >>,
     << "LOBBY", "MENU" >>,
     << "PLAYING", "PAUSED" >>, << "PLAYING", "MATCH_END" >>, << "PLAYING", "MENU" >>,
     << "PAUSED", "PLAYING" >>, << "PAUSED", "MENU" >>,
     << "MATCH_END", "MENU" >>, << "MATCH_END", "LOBBY" >>}

\* The pairs accepted on top of the specified ones.
AlsoAccepted ==
    {<< "LOBBY", "MULTIPLAYER" >>, << "COUNTDOWN", "LOBBY" >>, << "SINGLEPLAYER", "MENU" >>}

\* accepted: changeState(to) in g moves g to the other state `to`.
Accepts(g, to) == \E food \in FoodDraws : changeState(g, to, FALSE, now, food).state = to

\* C2 as claimed: changeState accepts a transition between two distinct
\* states only if the pair is in the specified table.
C2_OnlySpecifiedTable ==
    \A p \in Procs : \A to \in GameStates \ {peer[p].state} :
        Accepts(peer[p], to) => << peer[p].state, to >> \in SpecifiedTable

\* C2 amended: the transitions between distinct states that are accepted are
\* exactly the specified ones and LOBBY -> MULTIPLAYER, COUNTDOWN -> LOBBY and
\* SINGLEPLAYER -> MENU; every other pair is rejected.  Checked on the
\* validity function for all pairs, and on changeState in every reachable Game.
C2_AcceptedTable ==
    /\ \A from \in GameStates : \A to \in GameStates \ {from} :
            isValidTransition(from, to) <=> << from, to >> \in SpecifiedTable \cup AlsoAccepted
    /\ \A p \in Procs : \A to \in GameStates \ {peer[p].state} :
            Accepts(peer[p], to) <=> << peer[p].state, to >> \in SpecifiedTable \cup AlsoAccepted

\* A lobby from which the way back to the session browser is accepted.
C2_Witness ==
    \E p \in Procs : /\ peer[p].state = "LOBBY"
                      /\ InSession(peer[p])
                      /\ Accepts(peer[p], "MULTIPLAYER")

\* The push numbers of the messages waiting in a queue, front first.
Waiting(g) == [i \in 1 .. Len(g.messageQueue) |-> g.messageQueue[i].seq]

\* C3: whatever the interleaving of the callback's pushes with the drain
\* loop, the messages dispatched so far followed by the messages still
\* queued are the pushed messages in push order, each exactly once.
C3_QueueFifo ==
    \A p \in Procs :
        peer[p].dispatched \o Waiting(peer[p]) = [i \in 1 .. peer[p].pushed |-> i]

\* Two messages were dispatched, the second pushed while the first was
\* already dispatched and the drain loop was still running.
C3_Witness ==
    \E p \in Procs : /\ peer[p].dispatched = << 1 >>
                      /\ Waiting(peer[p]) = << 2 >>
                      /\ peer[p].pc = "drain"

\* g without its message queue and without the history of pushes.
OutsideQueue(g) ==
    [g EXCEPT !.messageQueue = <<>>, !.pushed = 0, !.hostLeft = "no", !.hostLeftSeq = 0]

\* C4: a step of the transport callback (the step that pushes a message)
\* changes nothing of the Game but the message queue.
C4_CallbackTouchesOnlyQueue ==
    [][\A p \in Procs :
          peer'[p].pushed = peer[p].pushed + 1 =>
              OutsideQueue(peer'[p]) = OutsideQueue(peer[p])]_vars

\* C5: the transport handle is never destroyed while the drain loop of
\* processMessages is running: as long as the tick thread is in the loop
\* the handle it entered with is still there.
C5_NoTeardownDuringDrain ==
    \A p \in Procs : peer[p].pc = "drain" => peer[p].api

\* The peer is out of any session and its roster is empty.
SessionCleared(g) ==
    /\ g.sessionId = ""
    /\ g.myClientId = ""
    /\ g.myIndex = -1
    /\ \A i \in Slots : ~g.players[i].active

\* C6: on a non-host peer in a session, once a "leaved" event carrying the
\* host's id has been delivered and the queue drained, the peer is in MENU
\* with its session cleared.
C6_HostLeftEndsSession ==
    \A p \in Procs :
        peer[p].hostLeft = "drained" =>
            peer[p].state = "MENU" /\ SessionCleared(peer[p])

\* The peer recognised the host's departure and went back to the menu.
C6_Witness ==
    \E p \in Procs : /\ peer[p].hostLeft = "drained"
                      /\ peer[p].hostDisconnected
                      /\ peer[p].state = "MENU"

\* The actors of a match: the active slots that own a snake.
Actors(g) == {i \in Slots : isValid(g, i)}

\* Actor i beats actor j: a longer body, or as long a body and a higher score.
Beats(g, i, j) ==
    LET si == g.players[i].snake[1]
        sj == g.players[j].snake[1]
    IN  \/ Len(si.body) > Len(sj.body)
        \/ Len(si.body) = Len(sj.body) /\ si.score > sj.score

\* The actor that beats every other actor, or -1 when there is none.
UniqueBest(g) ==
    LET best == {i \in Actors(g) : \A j \in Actors(g) \ {i} : Beats(g, i, j)}
    IN  IF best = {} THEN -1 ELSE CHOOSE i \in best : TRUE

\* C7: when the host or a singleplayer game ends the match, winnerIndex is
\* the one actor with the lexicographically greatest (body length, score),
\* and -1 when that pair is shared or nobody is active.
C7_WinnerIsUniqueBest ==
    [][\A p \in Procs :
          (/\ peer[p].state # "MATCH_END"
           /\ peer'[p].state = "MATCH_END"
           /\ (peer[p].isHost \/ ~peer[p].api)) =>
              peer'[p].winnerIndex = UniqueBest(peer'[p])]_vars

\* A singleplayer match ended with its only actor as the winner.
C7_Witness ==
    \E p \in Procs : /\ peer[p].state = "MATCH_END"
                      /\ ~peer[p].api
                      /\ peer[p].winnerIndex = 0
                      /\ Actors(peer[p]) = {0}

\* C8: once the client has processed the host's match-end broadcast and is
\* in MATCH_END, its winnerIndex is the one the host holds for that match.
C8_ClientHasHostsWinner ==
    (/\ DOMAIN peer = {HostId, ClientId}
     /\ peer[ClientId].state = "MATCH_END"
     /\ peer[HostId].state = "MATCH_END"
     /\ peer[HostId].isHost
     /\ peer[ClientId].sessionId = peer[HostId].sessionId) =>
        peer[ClientId].winnerIndex = peer[HostId].winnerIndex

\* C9: when a key press resumes a pause that a key press began at time t1,
\* at time t2, totalPausedTime has grown by exactly t2 - t1 since the pause
\* began and pauseStartTime is 0; and on the host or in singleplayer the
\* elapsed match time right after is the one right before the pause.
C9_PauseTiming ==
    [][\A p \in Procs :
          (/\ peer[p].state = "PAUSED"
           /\ peer[p].localPause.t >= 0
           /\ peer[p].pc = "idle"
           /\ peer'[p].state = "PLAYING") =>
              /\ peer'[p].totalPausedTime =
                     U32(peer[p].localPause.total + (now - peer[p].localPause.t))
              /\ peer'[p].pauseStartTime = 0
              /\ (peer[p].isHost \/ ~peer[p].api) =>
                     elapsedMsAt(peer'[p], now) = peer[p].localPause.elapsed]_vars

\* A singleplayer game resumed some time after it was paused with the
\* timing the claim describes.
C9_Witness ==
    \E p \in Procs : /\ peer[p].state = "PLAYING"
                      /\ ~peer[p].api
                      /\ peer[p].totalPausedTime > 0
                      /\ peer[p].pauseStartTime = 0

\* sendGlobalPauseState's message is among messages.
HasPauseMessage(messages) == \E k \in 1 .. Len(messages) : IsPauseMessage(messages[k])

\* C10: a transition into or out of PAUSED made through onStateChange, the
\* entry of every transition an inbound message asks for, sends no pause or
\* unpause message.  Checked for every reachable Game and every target.
C10_NoEchoFromNetwork ==
    \A p \in Procs : \A to \in GameStates, food \in FoodDraws :
        LET h == onStateChange(peer[p], to, now, food)
        IN  (peer[p].state = "PAUSED" \/ to = "PAUSED") /\ h.state = to =>
                ~HasPauseMessage(h.out)

\* A connected peer with a slot of its own, paused by another peer's
\* message: the same transition asked for locally would have broadcast.
C10_Witness ==
    \E p \in Procs : /\ peer[p].state = "PAUSED"
                      /\ peer[p].pausedByClientId = OtherId
                      /\ peer[p].localPause = NoPause
                      /\ peer[p].api /\ hasMe(peer[p])
                      /\ HasPauseMessage(changeState([peer[p] EXCEPT !.state = "PLAYING"],
                                                      "PAUSED", FALSE, now, peer[p].food).out)

(***************************************************************************)
(* C11.  A pause requested by a connected peer that is PLAYING reaches     *)
(* every peer of the match: unless another pause or resume is requested,   *)
(* an event stays undelivered or the match runs out, eventually every peer *)
(* in the session is PAUSED with pausedByClientId the requester's id.      *)
(* Likewise a resume eventually has every peer PLAYING with                *)
(* pausedByClientId empty.                                                 *)
(***************************************************************************)
TotalRequests == peer[HostId].requests + peer[ClientId].requests

Undelivered == \E q \in Pair : wire[q] # <<>> /\ peer[q].pushed >= MaxDeliveries

\* The match has run out: some peer shows the result.
MatchOver == \E q \in Pair : peer[q].state = "MATCH_END"

AllPausedBy(p) ==
    \A q \in Pair : InSession(peer[q]) =>
        peer[q].state = "PAUSED" /\ peer[q].pausedByClientId = p

AllResumed ==
    \A q \in Pair : InSession(peer[q]) =>
        peer[q].state = "PLAYING" /\ peer[q].pausedByClientId = ""

\* Every update that Game::run starts is completed: the drain loop ends.
LoopsRun == \A p \in Pair : []<>(peer[p].pc # "drain")

C11_PauseReachesEveryPeer ==
    LoopsRun =>
        \A p \in Pair :
            /\ (TotalRequests = 1 /\ peer[p].lastRequest = "pause")
                   ~> (AllPausedBy(p) \/ TotalRequests >= 2 \/ Undelivered
                                     \/ MatchOver)
            /\ (TotalRequests = 2 /\ peer[p].lastRequest = "unpause")
                   ~> (AllResumed \/ TotalRequests >= 3 \/ Undelivered
                                  \/ MatchOver)

\* The host has paused the match it started and every event is delivered and
\* drained, the client still being in the lobby.
C11_Witness ==
    /\ peer[HostId].lastRequest = "pause" /\ TotalRequests = 1
    /\ peer[HostId].state = "PAUSED"
    /\ \A q \in Pair : wire[q] = <<>> /\ peer[q].messageQueue = <<>>
    /\ InSession(peer[ClientId]) /\ peer[ClientId].state = "LOBBY"

(***************************************************************************)
(* C12.  An inbound body update is all-or-nothing: after it is processed   *)
(* the sender's body is its prior body or the complete received sequence   *)
(* of segments, and the prior body whenever one received segment is not a  *)
(* valid position of the grid.                                             *)
(***************************************************************************)
\* The message the drain is about to dispatch is an update of a snake the
\* process holds, carrying a body.
BodyUpdateAtFront(g) ==
    /\ g.pc = "drain" /\ g.messageQueue # <<>>
    /\ LET msg == popFront(g.messageQueue)
       IN  /\ msg.type = "GAME_UPDATE"
           /\ ~Has(msg.jsonData, "type")
           /\ Has(msg.jsonData, "body")
           /\ msg.clientId # g.myClientId
           /\ find_player_by_client_id(g, msg.clientId) >= 0

ValidSegment(seg) ==
    /\ Has(seg, "x") /\ Has(seg, "y")
    /\ seg.x >= 0 /\ seg.x < GRID_WIDTH /\ seg.y >= 0 /\ seg.y < GRID_HEIGHT

Dispatching(p) == peer'[p].dispatched # peer[p].dispatched

C12_BodyUpdateAllOrNothing ==
    [][\A p \in Procs :
          BodyUpdateAtFront(peer[p]) /\ Dispatching(p) =>
              LET msg == popFront(peer[p].messageQueue)
                  segs == msg.jsonData.body
                  idx == find_player_by_client_id(peer[p], msg.clientId)
                  before == peer[p].players[idx].snake[1].body
                  after == peer'[p].players[idx].snake[1].body
              IN  IF \A k \in 1 .. Len(segs) : ValidSegment(segs[k])
                  THEN after = before
                       \/ after = [k \in 1 .. Len(segs) |-> Pos(segs[k].x, segs[k].y)]
                  ELSE after = before]_vars

\* An update with a segment that is no valid position has been processed.
C12_Witness ==
    \E p \in Procs :
        /\ peer[p].dispatched # <<>>
        /\ \E i \in Slots :
              /\ peer[p].players[i].snake # <<>>
              /\ peer[p].players[i].snake[1].body = << Pos(5, 5), Pos(3, 5) >>

(***************************************************************************)
(* C13.  When the host processes a player_input from client C with         *)
(* direction d, the snake of C's slot is what Snake::setDirection(d) makes *)
(* of it, and every other slot keeps its snake.                            *)
(***************************************************************************)
PlayerInputAtFront(g) ==
    /\ g.pc = "drain" /\ g.messageQueue # <<>>
    /\ g.isHost
    /\ LET msg == popFront(g.messageQueue)
       IN  /\ msg.type = "GAME_UPDATE"
           /\ Has(msg.jsonData, "type") /\ msg.jsonData.type = "player_input"
           /\ Has(msg.jsonData, "direction")
           /\ find_player_by_client_id(g, msg.clientId) >= 0
           /\ g.players[find_player_by_client_id(g, msg.clientId)].snake # <<>>

C13_InputSteersOnlySender ==
    [][\A p \in Procs :
          PlayerInputAtFront(peer[p]) /\ Dispatching(p) =>
              LET msg == popFront(peer[p].messageQueue)
                  idx == find_player_by_client_id(peer[p], msg.clientId)
              IN  \A i \in Slots :
                      peer'[p].players[i].snake =
                          IF i = idx
                          THEN << setDirection(peer[p].players[i].snake[1],
                                               msg.jsonData.direction) >>
                          ELSE peer[p].players[i].snake]_vars

\* The part that holds: no message of a peer, a roster aside, changes the
\* snake of a slot that is not the peer's.
C13_Others ==
    [][\A p \in Procs :
          peer[p].pc = "drain" /\ peer[p].messageQueue # <<>> /\ Dispatching(p)
          /\ popFront(peer[p].messageQueue).type = "GAME_UPDATE"
          /\ ~Has(popFront(peer[p].messageQueue).jsonData, "players") =>
              \A i \in Slots :
                  peer[p].players[i].clientId # popFront(peer[p].messageQueue).clientId
                      => peer'[p].players[i].snake = peer[p].players[i].snake]_vars

(***************************************************************************)
(* C14.  After a client processes a game_state snapshot of the host, its   *)
(* food is at the snapshot's position and every actor the snapshot lists   *)
(* with a valid body has the snapshot's body and alive flag.               *)
(***************************************************************************)
TypedAtFront(g, type) ==
    /\ g.pc = "drain" /\ g.messageQueue # <<>>
    /\ ~g.isHost
    /\ LET msg == popFront(g.messageQueue)
       IN  /\ msg.type = "GAME_UPDATE"
           /\ msg.clientId = HostId
           /\ Has(msg.jsonData, "type") /\ msg.jsonData.type = type

C14_SnapshotApplied ==
    [][\A p \in Procs :
          TypedAtFront(peer[p], "game_state") /\ Dispatching(p) =>
              LET data == popFront(peer[p].messageQueue).jsonData
              IN  /\ peer'[p].food = Pos(data.foodX, data.foodY)
                  /\ \A k \in 1 .. Len(data.players) :
                        LET actor == data.players[k]
                            slot == peer'[p].players[actor.index]
                        IN  (\A n \in 1 .. Len(actor.body) : ValidSegment(actor.body[n]))
                            /\ actor.body # <<>>
                                => /\ slot.snake # <<>>
                                   /\ slot.snake[1].body = actor.body
                                   /\ slot.snake[1].alive = actor.alive]_vars

(***************************************************************************)
(* C15.  While the host is PLAYING it broadcasts a timer update once a     *)
(* second has passed since the last one, and a client that processes a     *)
(* timer update has syncedElapsedMs equal to the broadcast elapsedMs.      *)
(***************************************************************************)
\* The end of an update cycle of the host in PLAYING: the broadcast is made,
\* and lastTimerBroadcast stamped, exactly when a second has passed.
TimerBroadcast(p) ==
    peer[p].pc = "drain" /\ peer'[p].pc = "idle" /\ peer[p].isHost /\ peer[p].api
    /\ peer[p].state = "PLAYING" =>
        IF U32(now - peer[p].lastTimerBroadcast) >= TIMER_BROADCAST_MS
        THEN peer'[p].lastTimerBroadcast = now
        ELSE peer'[p].lastTimerBroadcast = peer[p].lastTimerBroadcast

TimerApplied(p) ==
    TypedAtFront(peer[p], "time_sync") /\ Dispatching(p) =>
        peer'[p].syncedElapsedMs = popFront(peer[p].messageQueue).jsonData.elapsedMs

C15_TimerBroadcastAndApplied ==
    [][\A p \in Procs : TimerBroadcast(p) /\ TimerApplied(p)]_vars

\* The part that holds: the host's broadcasts.
C15_HostBroadcasts == [][\A p \in Procs : TimerBroadcast(p)]_vars

(***************************************************************************)
(* C16.  When the host's match start takes it into PLAYING, from LOBBY     *)
(* directly or through COUNTDOWN, the match start time is stamped with the *)
(* current time, elapsed and paused time are zero, and a state_sync with   *)
(* gameState PLAYING and the position of the food just placed goes to      *)
(* every peer of the session.                                              *)
(***************************************************************************)
\* The step of p appended to the wire of q a start message with p's food.
StartBroadcast(p, q) ==
    \E k \in Len(wire[q]) + 1 .. Len(wire'[q]) :
        LET e == wire'[q][k]
        IN  /\ e.event = "game" /\ e.clientId = p
            /\ Has(e.data, "type") /\ e.data.type = "state_sync"
            /\ Has(e.data, "gameState") /\ e.data.gameState = "PLAYING"
            /\ Has(e.data, "foodX") /\ Has(e.data, "foodY")
            /\ Pos(e.data.foodX, e.data.foodY) = peer'[p].food

HostEntersMatch(p) ==
    /\ peer[p].isHost /\ InSession(peer[p])
    /\ peer[p].state \in {"LOBBY", "COUNTDOWN"}
    /\ peer'[p].state = "PLAYING"

C16_MatchStartStamped ==
    [][\A p \in Procs :
          HostEntersMatch(p) =>
              /\ peer'[p].matchStartTime = now
              /\ peer'[p].syncedElapsedMs = 0
              /\ peer'[p].totalPausedTime = 0
              /\ peer'[p].pauseStartTime = 0
              /\ \A q \in Procs \ {p} :
                    InSession(peer[q]) /\ peer[q].sessionId = peer[p].sessionId
                        => StartBroadcast(p, q)]_vars

\* The host has started the match and is PLAYING with the client in session.
C16_Witness ==
    /\ peer[HostId].isHost /\ InSession(peer[HostId])
    /\ peer[HostId].state = "PLAYING"
    /\ peer[HostId].countdownStartTime > 0
    /\ InSession(peer[ClientId])

(***************************************************************************)
(* C17.  A client leaves LOBBY for PLAYING only after the host has started *)
(* the match: nothing a host still waiting in LOBBY sends, its periodic    *)
(* full state sync in particular, takes a client from LOBBY to PLAYING.    *)
(***************************************************************************)
\* The host pressed SPACE in the lobby at some time: the countdown has a
\* start time, or the host is in a state only a started match reaches.
HostStarted ==
    \/ peer[HostId].countdownStartTime # 0
    \/ peer[HostId].state \in {"COUNTDOWN", "PLAYING", "PAUSED", "MATCH_END"}

C17_ClientStartsAfterHost ==
    [][peer[ClientId].state = "LOBBY" /\ peer'[ClientId].state = "PLAYING"
          => HostStarted]_vars

\* The client is PLAYING, taken there by a message of the host.
C17_Witness ==
    /\ peer[ClientId].state = "PLAYING"
    /\ peer[ClientId].dispatched # <<>>
    /\ ~peer[ClientId].isHost /\ InSession(peer[ClientId])

(***************************************************************************)
(* C18.  Whatever "joined" and "leaved" events and state_sync rosters have *)
(* been processed, duplicated or reordered ones included, no two active    *)
(* slots hold the same peer id.                                            *)
(***************************************************************************)
C18_NoDuplicateIds ==
    \A p \in Procs : \A i, j \in Slots :
        peer[p].players[i].active /\ peer[p].players[j].active
        /\ peer[p].players[i].clientId = peer[p].players[j].clientId
            => i = j

\* Two events about the same peer have been processed and the peer has a slot.
C18_Witness ==
    \E p \in Procs :
        /\ Len(peer[p].dispatched) >= 2
        /\ find_player_by_client_id(peer[p], OtherId) >= 0

(***************************************************************************)
(* C19.  After a client processes a state_sync with a roster: every roster *)
(* id it did not know has an active slot, unless the slots ran out; no id  *)
(* it knew got another slot; and if its own id got a slot while its slot   *)
(* index was -1, its slot index is the slot that holds its id.             *)
(***************************************************************************)
RosterAtFront(g) ==
    /\ TypedAtFront(g, "state_sync")
    /\ Has(popFront(g.messageQueue).jsonData, "players")

SlotsOf(g, id) == {i \in Slots : g.players[i].active /\ g.players[i].clientId = id}

C19_RosterApplied ==
    [][\A p \in Procs :
          RosterAtFront(peer[p]) /\ Dispatching(p) =>
              LET ids == popFront(peer[p].messageQueue).jsonData.players
                  old == peer[p]
                  new == peer'[p]
                  full == \A i \in Slots : new.players[i].active
              IN  /\ \A k \in 1 .. Len(ids) :
                        IF SlotsOf(old, ids[k]) = {}
                        THEN Cardinality(SlotsOf(new, ids[k])) = 1
                             \/ (full /\ SlotsOf(new, ids[k]) = {})
                        ELSE SlotsOf(new, ids[k]) = SlotsOf(old, ids[k])
                  /\ (old.myIndex = -1 /\ SlotsOf(old, old.myClientId) = {}
                      /\ SlotsOf(new, old.myClientId) # {})
                         => new.myIndex \in SlotsOf(new, old.myClientId)]_vars

\* A client has processed two messages, knows its host and holds its own id
\* in the slot its index names.
C19_Witness ==
    \E p \in Procs :
        /\ ~peer[p].isHost /\ InSession(peer[p])
        /\ Len(peer[p].dispatched) >= 2
        /\ SlotsOf(peer[p], HostId) # {}
        /\ peer[p].myIndex \in SlotsOf(peer[p], peer[p].myClientId)

(***************************************************************************)
(* C20.  A peer in a session that has received no message for longer than  *)
(* the disconnect threshold is taken back to MENU and its session is torn  *)
(* down by the update cycles that follow.  Both peers are in the session   *)
(* from time 1 on; a peer with no push so far has been silent since then.  *)
(***************************************************************************)
Silenced(p) ==
    /\ InSession(peer[p])
    /\ peer[p].pushed = 0
    /\ now - 1 > CONNECTION_TIMEOUT_DISCONNECT_MS

TornDown(p) == peer[p].state = "MENU" /\ ~peer[p].api /\ SessionCleared(peer[p])

C20_SilenceEndsSession ==
    LoopsRun => \A p \in Pair : Silenced(p) ~> (TornDown(p) \/ ~Silenced(p))

\* A client that heard nothing for longer than the threshold is back at the
\* top of its loop after an update cycle.
C20_Witness ==
    /\ Silenced(ClientId)
    /\ peer[ClientId].pc = "idle"
    /\ peer[ClientId].state = "LOBBY"

(***************************************************************************)
(* C21.  A call of initialize (one on an initialized manager included),    *)
(* hostSession, joinSession or listSessions that fails returns false and   *)
(* leaves session id, own peer id, role flag, roster, own slot index and   *)
(* cached session list as they were.  The calls are made on every Game     *)
(* the program reaches, with the transport refusing, and with the manager  *)
(* in the state that makes the call fail by itself.                        *)
(***************************************************************************)
ManagerState(g) ==
    << g.sessionId, g.myClientId, g.isHost, g.players, g.myIndex, g.availableSessions >>

\* r is the outcome of a failed call on g.
FailedOn(g, r) == ~r.ok /\ ManagerState(r.g) = ManagerState(g) /\ r.g.api = g.api

C21_FailureKeepsState ==
    \A p \in Procs :
        LET g == peer[p]
        IN  /\ FailedOn(g, initialize(g, FALSE))
            /\ g.api => FailedOn(g, initialize(g, TRUE))
            /\ \A rcOk \in BOOLEAN :
                  ~g.api \/ ~rcOk =>
                      /\ FailedOn(g, hostSession(g, rcOk, "S", p, now))
                      /\ FailedOn(g, joinSession(g, rcOk, "S", p))
                      /\ \A sessionList \in SessionLists :
                            FailedOn(g, listSessions(g, rcOk, sessionList))

\* A manager with something to lose: in a session with an assigned slot, on
\* which the transport refuses to host.
C21_Witness ==
    \E p \in Procs :
        /\ InSession(peer[p])
        /\ peer[p].myIndex >= 0
        /\ ~hostSession(peer[p], FALSE, "S", p, now).ok

(***************************************************************************)
(* C22.  shutdown() is complete and idempotent: called on any Game the     *)
(* program reaches it leaves the manager not connected, session id and own *)
(* peer id empty, the role not host and, for a manager that was connected, *)
(* no active slot in the roster; a second shutdown() changes nothing.      *)
(***************************************************************************)
C22_ShutdownClears ==
    \A p \in Procs :
        LET g == peer[p]
            r == shutdown(g)
        IN  /\ ~r.api /\ r.sessionId = "" /\ r.myClientId = "" /\ ~r.isHost
            /\ g.api => \A i \in Slots : ~r.players[i].active
            /\ shutdown(r) = r

\* The part that holds: connection, session id, own peer id and role are
\* cleared, and a second shutdown() changes nothing.
C22_SessionCleared ==
    \A p \in Procs :
        LET r == shutdown(peer[p])
        IN  /\ ~r.api /\ r.sessionId = "" /\ r.myClientId = "" /\ ~r.isHost
            /\ shutdown(r) = r

\* A manager in a session with a peer in its roster, on which shutdown()
\* takes the connection down.
C22_Witness ==
    \E p \in Procs :
        /\ InSession(peer[p])
        /\ \E i \in Slots : peer[p].players[i].active
        /\ ~shutdown(peer[p]).api

(***************************************************************************)
(* C23.  On a connected peer that is not the host, the part of Game::update *)
(* that follows the drain loop runs no simulation: it leaves every slot's   *)
(* snake (body, directions, alive flag, score) and the food where they      *)
(* were.  They change on a client only in the dispatch of a message or,     *)
(* for its own snake, at a steering key.                                    *)
(***************************************************************************)
ActorsAndFood(g) == << [i \in Slots |-> g.players[i].snake], g.food >>

ClientTick(p) ==
    /\ peer[p].api /\ ~peer[p].isHost
    /\ peer[p].pc = "drain" /\ peer[p].messageQueue = <<>>
    /\ peer'[p].pc # "drain"

Directions == {"UP", "DOWN", "LEFT", "RIGHT"}

\* Positions handed to the constructor and to reset.
SnakeStarts == {Pos(2, 0), Pos(3, 1)}

\* Bodies handed to setBody.
SetBodyDraws ==
    { <<>>,
      << Pos(1, 1) >>,
      << Pos(1, 0), Pos(2, 0) >>,
      << Pos(0, 2), Pos(0, 1), Pos(1, 1) >> }

InWalk(pos) ==
    pos.x >= 0 /\ pos.x < WalkWidth /\ pos.y >= 0 /\ pos.y < WalkHeight

SnakeOf(p) == peer[p].players[0].snake[1]

Call(p, snake) ==
    /\ peer' = [peer EXCEPT ![p].players[0].snake = << snake >>]
    /\ UNCHANGED <<now, wire>>

CallSetDirection(p) == \E dir \in Directions : Call(p, setDirection(SnakeOf(p), dir))

CallUpdate(p) ==
    /\ InWalk(Moved(SnakeOf(p).body[1], SnakeOf(p).nextDirection))
    /\ Call(p, SnakeUpdate(SnakeOf(p)))

CallGrow(p) ==
    /\ Len(SnakeOf(p).body) < MaxBody
    /\ SnakeOf(p).score < MaxScore
    /\ Call(p, grow(SnakeOf(p)))

CallReset(p) ==
    /\ SnakeOf(p).score > -MaxPenalty
    /\ \E startPos \in SnakeStarts : Call(p, SnakeReset(SnakeOf(p), startPos))

CallSetBody(p) == \E newBody \in SetBodyDraws : Call(p, setBody(SnakeOf(p), newBody))

CallSetAlive(p) == \E status \in BOOLEAN : Call(p, [SnakeOf(p) EXCEPT !.alive = status])

SnakeInit ==
    /\ peer \in [{"me"} -> {handleMenuInput(NewGame(food), "RETURN", 1, FALSE, startPos, food) :
                               startPos \in SnakeStarts, food \in FoodDraws}]
    /\ now = 1
    /\ wire = [p \in {"me"} |-> <<>>]

SnakeNext ==
    \/ \E p \in DOMAIN peer : CallSetDirection(p)
    \/ \E p \in DOMAIN peer : CallUpdate(p)
    \/ \E p \in DOMAIN peer : CallGrow(p)
    \/ \E p \in DOMAIN peer : CallReset(p)
    \/ \E p \in DOMAIN peer : CallSetBody(p)
    \/ \E p \in DOMAIN peer : CallSetAlive(p)

SnakeSpec == SnakeInit /\ [][SnakeNext]_vars

(***************************************************************************)
(* C27.  Whatever sequence of setDirection, update, grow, reset and        *)
(* setBody calls was made, setBody with an empty body included, the body   *)
(* of the snake has at least one segment.                                  *)
(***************************************************************************)
C27_BodyNeverEmpty == \A p \in Procs : Len(SnakeOf(p).body) >= 1

\* A body that setBody installed.
C27_Witness == \E p \in Procs : SnakeOf(p).body = << Pos(1, 1) >>

(***************************************************************************)
(* C24.  For every direction d that is not the reverse of the snake's      *)
(* current direction, setDirection(d) followed by update() moves the head  *)
(* exactly one cell in direction d and leaves the length of the body as it *)
(* was.  The two calls are made on every snake the call sequences reach.   *)
(***************************************************************************)
Opposite(dir) ==
    CASE dir = "UP" -> "DOWN"
      [] dir = "DOWN" -> "UP"
      [] dir = "LEFT" -> "RIGHT"
      [] dir = "RIGHT" -> "LEFT"
      [] OTHER -> "NONE"

\* The directions in which the head lies from the segment behind it.
Facing(s) ==
    IF Len(s.body) < 2 THEN {}
    ELSE LET head == s.body[1]
             neck == s.body[2]
         IN  {dir \in Directions :
                 CASE dir = "RIGHT" -> head.x > neck.x
                   [] dir = "LEFT" -> head.x < neck.x
                   [] dir = "DOWN" -> head.y > neck.y
                   [] OTHER -> head.y < neck.y}

C24_SteerMovesHead ==
    \A p \in Procs : \A dir \in Directions :
        LET s == SnakeOf(p)
            after == SnakeUpdate(setDirection(s, dir))
        IN  dir # Opposite(s.direction)
            => /\ after.body[1] = Moved(s.body[1], dir)
               /\ Len(after.body) = Len(s.body)

\* C24 as it holds: for a live snake the length stays and the head moves one
\* cell in direction d from where setDirection left it, which is the old head
\* unless the snake had not moved yet and its body faced the reverse of d:
\* then setDirection turned the body round and the head leaves from the old
\* tail end.  update() does not move a snake that is not alive.
C24_SteerMovesLiveHead ==
    \A p \in Procs : \A dir \in Directions :
        LET s == SnakeOf(p)
            turned == s.direction = "NONE" /\ Opposite(dir) \in Facing(s)
            steered == setDirection(s, dir)
            after == SnakeUpdate(steered)
        IN  /\ s.alive /\ dir # Opposite(s.direction)
               => /\ steered.body = IF turned THEN Reverse(s.body) ELSE s.body
                  /\ after.body[1] = Moved(steered.body[1], dir)
                  /\ Len(after.body) = Len(s.body)
            /\ ~s.alive => after.body = steered.body

\* A snake that was turned round by its first steering and has moved.
C24_Witness ==
    \E p \in Procs :
        /\ SnakeOf(p).alive /\ SnakeOf(p).direction = "LEFT"
        /\ SnakeOf(p).body = << Pos(0, 1), Pos(1, 1), Pos(2, 1) >>

(***************************************************************************)
(* C25.  A moving snake never reverses: whatever setDirection calls are    *)
(* made between two updates, the second update does not commit the reverse *)
(* of the direction the first committed, and so does not move the head     *)
(* onto the segment behind it.  The first update is made on every snake    *)
(* the call sequences reach, followed by up to two setDirection calls.     *)
(***************************************************************************)
DirSeqs == {<<>>} \cup {<< d >> : d \in Directions}
               \cup {<< d, e >> : d \in Directions, e \in Directions}

RECURSIVE Steer(_, _)
Steer(s, dirs) ==
    IF dirs = <<>> THEN s ELSE Steer(setDirection(s, Head(dirs)), Tail(dirs))

C25_NeverReverses ==
    \A p \in Procs : \A dirs \in DirSeqs :
        LET first == SnakeUpdate(SnakeOf(p))
            steered == Steer(first, dirs)
            second == SnakeUpdate(steered)
        IN  first.alive /\ first.direction # "NONE"
            => /\ second.direction # Opposite(first.direction)
               /\ Len(steered.body) >= 2 => second.body[1] # steered.body[2]

\* A snake that went right, then down, and is asked to go left.
C25_Witness ==
    \E p \in Procs :
        LET s == SnakeOf(p)
        IN  /\ s.alive /\ s.direction = "DOWN" /\ s.nextDirection = "LEFT"
            /\ Len(s.body) >= 3
            /\ s.body[1] = Moved(s.body[2], "DOWN")
            /\ s.body[2] = Moved(s.body[3], "RIGHT")

(***************************************************************************)
(* C26.  grow() followed by the next update() of a moving snake leaves the *)
(* body one segment longer than it was before grow(): the new head in      *)
(* front of the segments it had.                                           *)
(***************************************************************************)
C26_GrowAddsOneSegment ==
    \A p \in Procs :
        LET s == SnakeOf(p)
            after == SnakeUpdate(grow(s))
        IN  s.alive /\ s.direction # "NONE" /\ s.nextDirection # "NONE"
            => /\ Len(after.body) = Len(s.body) + 1
               /\ after.body = << Moved(s.body[1], s.nextDirection) >> \o s.body

\* A moving snake that has grown by one segment and moved on.
C26_Witness ==
    \E p \in Procs :
        LET s == SnakeOf(p)
        IN  /\ s.alive /\ s.direction # "NONE" /\ s.score = 10
            /\ Len(s.body) = 4 /\ Cardinality(Cells(s.body)) = 4
            /\ s.body[1] = Moved(s.body[2], s.direction)

(***************************************************************************)
(* C28.  A body serialized by send_game_state and applied by               *)
(* update_remote_player on a receiver that holds a snake for the sender is *)
(* the sent body, segment for segment and in the same order, provided      *)
(* every position is inside the grid.                                      *)
(***************************************************************************)
SentAtFront(g, snake) ==
    /\ BodyUpdateAtFront(g)
    /\ popFront(g.messageQueue).jsonData = Sent[snake]
    /\ \A k \in 1 .. Len(snake.body) : InGrid(snake.body[k])

BodyOfSender(g, clientId) ==
    g.players[find_player_by_client_id(g, clientId)].snake[1].body

C28_BodyRoundTrip ==
    [][\A p \in Procs : \A snake \in SentSnakes :
          SentAtFront(peer[p], snake) /\ Dispatching(p)
          => BodyOfSender(peer'[p], popFront(peer[p].messageQueue).clientId) = snake.body]_vars

\* C28 as it holds: the body also has to be within the ceiling of
\* BODY_CEILING segments; a longer one is rejected and the receiver keeps
\* the body it had.
C28_BodyRoundTripWithinCeiling ==
    [][\A p \in Procs : \A snake \in SentSnakes :
          SentAtFront(peer[p], snake) /\ Dispatching(p)
          => LET clientId == popFront(peer[p].messageQueue).clientId
             IN  BodyOfSender(peer'[p], clientId) =
                     IF Len(snake.body) <= BODY_CEILING THEN snake.body
                     ELSE BodyOfSender(peer[p], clientId)]_vars

\* The host holds the body the peer sent.
C28_Witness ==
    \E p \in Procs :
        /\ peer[p].dispatched # <<>>
        /\ \E i \in Slots :
              /\ peer[p].players[i].snake # <<>>
              /\ peer[p].players[i].snake[1].body = << Pos(8, 8), Pos(7, 8), Pos(7, 7) >>
              /\ peer[p].players[i].snake[1].score = 20

(***************************************************************************)
(* C29.  Processing the same state_sync payload twice in a row leaves the  *)
(* match state (match start time, elapsed time, totalPausedTime,           *)
(* pauseStartTime, pausedByClientId), the game state and the roster as     *)
(* processing it once does.  The payload is the state_sync the drain is    *)
(* about to dispatch.                                                      *)
(***************************************************************************)
MatchView(g) ==
    << g.matchStartTime, g.syncedElapsedMs, g.totalPausedTime, g.pauseStartTime,
       g.pausedByClientId, g.state, g.players, g.myIndex >>

StateSyncAtFront(g) ==
    /\ g.pc = "drain" /\ g.messageQueue # <<>>
    /\ LET msg == popFront(g.messageQueue)
       IN  /\ msg.type = "GAME_UPDATE"
           /\ Has(msg.jsonData, "type") /\ msg.jsonData.type = "state_sync"

C29_StateSyncIdempotent ==
    \A p \in Procs : \A food \in FoodDraws :
        StateSyncAtFront(peer[p])
        => LET data == popFront(peer[p].messageQueue).jsonData
               once == handleStateSync(peer[p], data, now, food)
               twice == handleStateSync(once, data, now, food)
           IN  MatchView(twice) = MatchView(once)

\* What holds: on a client the second pass changes nothing but the pause timing.
C29_IdempotentButPauseTiming ==
    \A p \in Procs : \A food \in FoodDraws :
        StateSyncAtFront(peer[p]) /\ ~peer[p].isHost
        => LET data == popFront(peer[p].messageQueue).jsonData
               once == handleStateSync(peer[p], data, now, food)
               twice == handleStateSync(once, data, now, food)
           IN  MatchView([twice EXCEPT !.totalPausedTime = 0, !.pauseStartTime = 0])
               = MatchView([once EXCEPT !.totalPausedTime = 0, !.pauseStartTime = 0])

\* A pause of another peer has been processed by a peer that was PLAYING
\* at a time other than the one the payload carries.
C29_Witness ==
    \E p \in Procs :
        /\ peer[p].state = "PAUSED" /\ peer[p].pausedByClientId = OtherId
        /\ peer[p].localPause = NoPause
        /\ peer[p].pauseStartTime = 3002

(***************************************************************************)
(* The random placement: Food::spawn and getRandomSpawnPositionUtil.  The  *)
(* outcomes of the successive rand() pairs of one call are a stream of     *)
(* cells: `first` for the first n draws and `rest` for every later one.    *)
(***************************************************************************)
Draw(stream, k) == IF k <= stream.n THEN stream.first ELSE stream.rest

Attempts == 1 .. MAX_FOOD_SPAWN_ATTEMPTS

\* Food::spawn deciding on its first draw.
FoodSpawn_first_draw(occupiedPositions, stream) == Draw(stream, 1)

\* Food::spawn: the first of MAX_FOOD_SPAWN_ATTEMPTS draws that is not
\* occupied; if there is none, one more draw, taken as it comes.
FoodSpawn(occupiedPositions, stream) ==
    IF \E k \in Attempts : Draw(stream, k) \notin occupiedPositions
    THEN Draw(stream, CHOOSE k \in Attempts :
                          /\ Draw(stream, k) \notin occupiedPositions
                          /\ \A j \in 1 .. (k - 1) : Draw(stream, j) \in occupiedPositions)
    ELSE Draw(stream, MAX_FOOD_SPAWN_ATTEMPTS + 1)

\* The three cells a new snake covers at pos.
SpawnCells(pos) == {pos, Pos(pos.x - 1, pos.y), Pos(pos.x - 2, pos.y)}

\* getRandomSpawnPositionUtil: the first draw whose three cells are free; if
\* none of MAX_FOOD_SPAWN_ATTEMPTS draws is, the last of them.
getRandomSpawnPositionUtil(occupiedPositions, stream) ==
    IF \E k \in Attempts : SpawnCells(Draw(stream, k)) \cap occupiedPositions = {}
    THEN Draw(stream, CHOOSE k \in Attempts :
                          /\ SpawnCells(Draw(stream, k)) \cap occupiedPositions = {}
                          /\ \A j \in 1 .. (k - 1) :
                                SpawnCells(Draw(stream, j)) \cap occupiedPositions # {})
    ELSE Draw(stream, MAX_FOOD_SPAWN_ATTEMPTS)

Always(cell) == [first |-> cell, n |-> 0, rest |-> cell]

\* Streams of Food::spawn: x in 0 .. GRID_WIDTH - 1.
FoodStreams ==
    {Always(Pos(2, 0)), Always(Pos(1, 1)), Always(Pos(39, 29)),
     [first |-> Pos(2, 0), n |-> MAX_FOOD_SPAWN_ATTEMPTS - 1, rest |-> Pos(20, 21)],
     [first |-> Pos(2, 0), n |-> MAX_FOOD_SPAWN_ATTEMPTS, rest |-> Pos(20, 22)]}

\* Streams of getRandomSpawnPositionUtil: x in 2 .. GRID_WIDTH - 1.
SpawnStreams ==
    {Always(Pos(2, 0)), Always(Pos(3, 1)), Always(Pos(20, 20)), Always(Pos(39, 29)),
     [first |-> Pos(2, 0), n |-> MAX_FOOD_SPAWN_ATTEMPTS - 1, rest |-> Pos(10, 5)]}

\* The loop of Game::resetMatch from slot i on: the position
\* getRandomSpawnPosition returns for every valid slot, and occupiedPositions
\* as the loop leaves it, the map getRandomSpawnPosition built last with the
\* cells of the snakes reset since.
RECURSIVE SpawnsFrom(_, _, _, _, _)
SpawnsFrom(g, i, stream, spawns, occupiedPositions) ==
    IF i \notin Slots THEN [spawns |-> spawns, occupiedPositions |-> occupiedPositions]
    ELSE IF ~isValid(g, i) THEN SpawnsFrom(g, i + 1, stream, spawns, occupiedPositions)
    ELSE LET built == buildCollisionMap(g)
             spawnPos == getRandomSpawnPositionUtil(built, stream)
             snake == SnakeReset(g.players[i].snake[1], spawnPos)
         IN  SpawnsFrom([g EXCEPT !.players[i].snake = << snake >>], i + 1, stream,
                        [spawns EXCEPT ![i] = spawnPos], built \cup Cells(snake.body))

(***************************************************************************)
(* The single player's game restarted from the pause menu over and over:   *)
(* the steps are the pause key and the keys of the pause menu, and a       *)
(* restart places the snake and the food by the draws of a stream.         *)
(***************************************************************************)
PauseKey(p) ==
    /\ CanInput(peer[p], "handlePlayingInput")
    /\ peer' = [peer EXCEPT ![p] =
                   Silent(handlePlayingInput(Fresh(peer[p]), "p", now, peer[p].food))]
    /\ UNCHANGED <<now, wire>>

PauseMenuKey(p) ==
    /\ CanInput(peer[p], "handlePausedInput")
    /\ \E key \in {"UP", "DOWN", "RETURN"}, spawnStream \in SpawnStreams,
          foodStream \in FoodStreams :
          LET g == Fresh(peer[p])
              drawn == SpawnsFrom(g, 0, spawnStream, PLAYER_SPAWN_POSITIONS,
                                  buildCollisionMap(g))
              food == FoodSpawn(drawn.occupiedPositions, foodStream)
          IN  peer' = [peer EXCEPT ![p] =
                          Silent(handlePausedInput(g, key, now, drawn.spawns, food))]
    /\ UNCHANGED <<now, wire>>

SpawnNext ==
    \/ \E p \in DOMAIN peer : PauseKey(p)
    \/ \E p \in DOMAIN peer : PauseMenuKey(p)

SpawnSpec == SnakeInit /\ [][SpawnNext]_vars

(***************************************************************************)
(* C30.  For every occupancy map that is not full and every outcome of the *)
(* random draws, Food::spawn and getRandomSpawnPositionUtil return a cell   *)
(* the map reports as unoccupied.  The maps are those of the games the     *)
(* restarts reach.                                                         *)
(***************************************************************************)
GridCells == {Pos(x, y) : x \in 0 .. (GRID_WIDTH - 1), y \in 0 .. (GRID_HEIGHT - 1)}

NotFull(occupiedPositions) == \E cell \in GridCells : cell \notin occupiedPositions

C30_SpawnUnoccupied ==
    \A p \in Procs :
        LET occupiedPositions == buildCollisionMap(peer[p])
        IN  NotFull(occupiedPositions)
            => /\ \A stream \in FoodStreams :
                     FoodSpawn(occupiedPositions, stream) \notin occupiedPositions
               /\ \A stream \in SpawnStreams :
                     getRandomSpawnPositionUtil(occupiedPositions, stream)
                         \notin occupiedPositions

\* C30 as it holds: the cell is unoccupied unless every one of the
\* MAX_FOOD_SPAWN_ATTEMPTS attempts drew an occupied cell (Food::spawn) or a
\* cell without three free cells in a row (getRandomSpawnPositionUtil); then
\* Food::spawn returns one more draw and the helper its last draw, occupied
\* or not.
C30_SpawnUnoccupiedUnlessExhausted ==
    \A p \in Procs :
        LET occupiedPositions == buildCollisionMap(peer[p])
        IN  /\ \A stream \in FoodStreams :
                  LET pos == FoodSpawn(occupiedPositions, stream)
                  IN  \/ pos \notin occupiedPositions
                      \/ /\ \A k \in Attempts : Draw(stream, k) \in occupiedPositions
                         /\ pos = Draw(stream, MAX_FOOD_SPAWN_ATTEMPTS + 1)
            /\ \A stream \in SpawnStreams :
                  LET pos == getRandomSpawnPositionUtil(occupiedPositions, stream)
                  IN  \/ SpawnCells(pos) \cap occupiedPositions = {}
                      \/ /\ \A k \in Attempts :
                               SpawnCells(Draw(stream, k)) \cap occupiedPositions # {}
                         /\ pos = Draw(stream, MAX_FOOD_SPAWN_ATTEMPTS)

\* A restart has put the snake where the last but one draw was refused and
\* the food where every draw but the last was refused.
C30_Witness ==
    \E p \in Procs :
        /\ peer[p].state = "PLAYING" /\ isValid(peer[p], 0)
        /\ SnakeOf(p).body[1] = Pos(10, 5)
        /\ peer[p].food = Pos(20, 21)

(***************************************************************************)
(* The arena: one process, "me", that simulates a match, as the host of a  *)
(* session with the peer "oth" or as the single player, over a clock that  *)
(* advances by the update interval.  The player steers, the transport      *)
(* delivers what peers send during a match and the arrival of a third      *)
(* peer, and the match can run out and be restarted.                       *)
(***************************************************************************)
MaxPaces == 2        \* update intervals the clock of the arena advances by
MaxArenaPushes == 2  \* events delivered to the process of the arena

NewId == "new"

\* Cells Food::spawn draws when the host enters the match: the cell in front
\* of the host's head, or a far corner.
ArenaFood == {Pos(11, 7)} \cup FoodDraws

\* send_game_state of "oth": a snake two cells in front of the head of the
\* host's, with the highest score update_remote_player accepts, and a snake
\* that lies where slot 2 spawns, with a score above that.
ArenaUpdates ==
    {[PlayerUpdateMsg(<< Pos(12, 7), Pos(12, 8), Pos(12, 9) >>) EXCEPT !.score = 10000],
     [PlayerUpdateMsg(<< Pos(10, 22), Pos(10, 23), Pos(10, 24) >>) EXCEPT !.score = 10001]}

\* A state_sync that carries a food cell outside the grid.
FoodMsg == [type |-> "state_sync", foodX |-> GRID_WIDTH, foodY |-> -1]

ArenaEvents ==
    {Event("game", OtherId, data) : data \in ArenaUpdates \cup {FoodMsg}}
    \cup {Event("joined", NewId, NoData)}

ArenaEvent(p) ==
    /\ InSession(peer[p])
    /\ peer[p].pushed < MaxArenaPushes
    /\ \E e \in ArenaEvents : Callback(p, e)
    /\ UNCHANGED <<now, wire>>

\* One update interval passes.
Pace ==
    /\ now < 3002 + MaxPaces * INITIAL_SPEED_MS
    /\ now' = now + INITIAL_SPEED_MS
    /\ UNCHANGED <<peer, wire>>

ArenaInit ==
    /\ peer \in [{"me"} ->
           UNION {HostInMatch(food) : food \in ArenaFood}
           \cup {handleMenuInput(NewGame(food), "RETURN", 1, FALSE, startPos, food) :
                    startPos \in SnakeStarts, food \in FoodDraws}]
    /\ now = 3002
    /\ wire = [p \in {"me"} |-> <<>>]

ArenaNext ==
    \/ \E p \in DOMAIN peer : SteerKey(p)
    \/ \E p \in DOMAIN peer : MatchEndKey(p)
    \/ \E p \in DOMAIN peer : ArenaEvent(p)
    \/ \E p \in DOMAIN peer : UpdateOffline(p)
    \/ \E p \in DOMAIN peer : BeginDrain(p)
    \/ \E p \in DOMAIN peer : DrainPop(p)
    \/ \E p \in DOMAIN peer : DrainEnd(p)
    \/ Pace
    \/ Tick

ArenaSpec == ArenaInit /\ [][ArenaNext]_vars

(***************************************************************************)
(* C31.  A body that was just placed lies on no cell of another active     *)
(* actor: the body add_player gives an actor that joins, the body          *)
(* respawnPlayer gives a slot, and the bodies resetMatch gives every       *)
(* slot, whenever the draws of getRandomSpawnPositionUtil found three free *)
(* cells.  Checked for every Game the arena reaches, every slot and every  *)
(* stream of draws.                                                        *)
(***************************************************************************)
\* The cells of the active actors of g other than the one in slot i.
CellsOfOthers(g, i) ==
    UNION {Cells(g.players[k].snake[1].body) : k \in {j \in Slots : j # i /\ isValid(g, j)}}

\* The body of slot i lies on no cell of another active actor.
NotCollided(g, i) == Cells(g.players[i].snake[1].body) \cap CellsOfOthers(g, i) = {}

\* add_player: the slot the next actor to join gets.
JoinedNotCollided(g) ==
    LET free == {i \in Slots : ~g.players[i].active}
    IN  free # {} => NotCollided(add_player(g, NewId), CHOOSE i \in free : \A j \in free : i <= j)

\* respawnPlayer(i): getRandomSpawnPosition, then Snake::reset.
RespawnedNotCollided(g) ==
    \A i \in Slots, stream \in SpawnStreams :
        isValid(g, i)
        => LET built == buildCollisionMap(g)
               randomPos == getRandomSpawnPositionUtil(built, stream)
               h == [g EXCEPT !.players[i].snake = << SnakeReset(@[1], randomPos) >>]
           IN  SpawnCells(randomPos) \cap built = {} => NotCollided(h, i)

\* resetMatch: the map of the draw for slot i holds the new bodies of the
\* slots before i and the old bodies from slot i on.
ResetNotCollided(g) ==
    \A stream \in SpawnStreams :
        LET drawn == SpawnsFrom(g, 0, stream, PLAYER_SPAWN_POSITIONS, buildCollisionMap(g))
            h == resetMatch(g, now, drawn.spawns, g.food)
            builtFor(i) ==
                UNION {Cells((IF j < i THEN h ELSE g).players[j].snake[1].body) :
                          j \in {k \in Slots : isValid(g, k)}}
            found == \A i \in Slots :
                         isValid(g, i) => SpawnCells(drawn.spawns[i]) \cap builtFor(i) = {}
        IN  found => \A i \in Slots : isValid(h, i) => NotCollided(h, i)

C31_FreshBodyNotCollided ==
    \A p \in Procs :
        /\ JoinedNotCollided(peer[p])
        /\ RespawnedNotCollided(peer[p])
        /\ ResetNotCollided(peer[p])

\* What holds: the bodies respawnPlayer and resetMatch place.
C31_DrawnBodyNotCollided ==
    \A p \in Procs : RespawnedNotCollided(peer[p]) /\ ResetNotCollided(peer[p])

\* An actor has joined in slot 2 while the snake of "oth" lay on the cells
\* where slot 2 spawns.
C31_Witness ==
    \E p \in Procs :
        /\ isValid(peer[p], 1) /\ isValid(peer[p], 2)
        /\ peer[p].players[2].clientId = NewId
        /\ peer[p].players[2].snake[1].body[1] = Pos(10, 22)
        /\ peer[p].players[1].snake[1].body[1] = Pos(10, 22)

(***************************************************************************)
(* C32.  A snake that dies in a simulation tick is respawned with its      *)
(* score lowered by 10, a body of three segments at the spawn position, no *)
(* direction and alive; after resetMatch every active actor has score 0.   *)
(* Checked for every Game the arena reaches: the tick of a Game that       *)
(* simulates, and the restart of a Game that is at the end of its match.   *)
(***************************************************************************)
\* The snake of slot i is about to die: it is alive and steered, and the
\* cell in front of its head is outside the grid or holds a segment that
\* stays, any but its own last one when it is not about to grow.
Dies(g, i) ==
    LET snake == g.players[i].snake[1]
        ahead == Moved(snake.body[1], snake.nextDirection)
        leaving == IF snake.body[1] = g.food THEN {} ELSE {snake.body[Len(snake.body)]}
    IN  /\ snake.alive /\ snake.nextDirection # "NONE"
        /\ ~InGrid(ahead) \/ ahead \in (buildCollisionMap(g) \ leaving)

C32_RespawnPenaltyResetZero ==
    \A p \in Procs : \A spawn \in SpawnDraws, food \in FoodDraws :
        LET g == peer[p]
            spawns == [i \in Slots |-> spawn]
            ticked == updatePlayers(g, spawns, food)
            restarted == resetMatch(g, now, spawns, food)
        IN  /\ g.state = "PLAYING" /\ (g.isHost \/ ~g.api)
               => \A i \in Slots :
                     isValid(g, i) /\ Dies(g, i)
                     => /\ isValid(ticked, i)
                        /\ ticked.players[i].snake[1] =
                               [body |-> << spawn, Pos(spawn.x - 1, spawn.y),
                                            Pos(spawn.x - 2, spawn.y) >>,
                                direction |-> "NONE", nextDirection |-> "NONE",
                                alive |-> TRUE,
                                score |-> g.players[i].snake[1].score - 10]
            /\ g.state = "MATCH_END"
               => \A i \in Slots :
                     restarted.players[i].active = g.players[i].active
                     /\ (isValid(restarted, i) => restarted.players[i].snake[1].score = 0)

\* The host's snake has eaten, has then run into the snake of "oth" and has
\* been respawned: it lies at a spawn position with the score 10 - 10.
C32_Witness ==
    \E p \in Procs :
        /\ peer[p].isHost /\ peer[p].state = "PLAYING" /\ now <= 3202
        /\ isValid(peer[p], 0)
        /\ peer[p].players[0].snake[1].body[1] \in SpawnDraws
        /\ peer[p].players[0].snake[1].score = 0
        /\ peer[p].food \in FoodDraws

(***************************************************************************)
(* C33.  The pause owner and the game state agree: outside PAUSED          *)
(* pausedByClientId is empty, whichever way PAUSED was left and whatever   *)
(* pause message arrived in a state that does not admit PAUSED, and in a   *)
(* network session a PAUSED game has a pause owner.                        *)
(***************************************************************************)
C33_PauseOwnerMatchesState ==
    \A p \in Procs :
        /\ peer[p].state # "PAUSED" => peer[p].pausedByClientId = ""
        /\ peer[p].state = "PAUSED" /\ InSession(peer[p]) => peer[p].pausedByClientId # ""

\* A peer in the lobby has processed the pause message of another peer.
C33_Witness ==
    \E p \in Procs :
        /\ peer[p].state = "LOBBY" /\ InSession(peer[p])
        /\ peer[p].lastError = ErrorLine("LOBBY", "PAUSED", TRUE)
        /\ peer[p].pausedByClientId = OtherId

(***************************************************************************)
(* C34.  A game that is in MENU when Game::update returns has no active    *)
(* player slot, no slot of its own, no transport connection and no session *)
(* id, whatever was still queued when it went back to the menu.            *)
(***************************************************************************)
C34_MenuIsCleared ==
    \A p \in Procs :
        peer[p].state = "MENU" /\ peer[p].pc = "idle"
        => /\ \A i \in Slots : ~peer[p].players[i].active
           /\ peer[p].myIndex = -1
           /\ ~peer[p].api
           /\ peer[p].sessionId = ""

\* The host's "leaved" has been dispatched and has taken the client to the
\* menu while the arrival of "oth" waited behind it, and the update is over.
C34_Witness ==
    \E p \in Procs :
        /\ peer[p].state = "MENU" /\ peer[p].pc = "idle"
        /\ peer[p].hostLeft = "drained"
        /\ Len(peer[p].dispatched) > peer[p].hostLeftSeq
        /\ peer[p].players[0].active /\ peer[p].players[0].clientId = OtherId

(***************************************************************************)
(* A client on its way into a session: the process "cli" has listed and    *)
(* joined session "S" of the host "hst", and the peer "oth" joins after    *)
(* it.  The transport delivers the arrival of "oth", the rosters the host  *)
(* broadcasts as it hears of the two, and the host's leaving.              *)
(***************************************************************************)
MaxJoinPushes == 3  \* events delivered to the joining client

\* The host after it has heard of "cli", and after it has then heard of
\* "oth": each has its roster broadcast in out.
JoinHosts ==
    UNION {LET first == handlePlayerJoined(Hosting(food), ClientId)
               second == handlePlayerJoined(Silent(first), OtherId)
           IN  {first, second} : food \in FoodDraws}

\* The state_sync the host h has just broadcast.
RosterSent(h) == h.out[Len(h.out)]

JoinEvents ==
    {Event("game", HostId, RosterSent(h)) : h \in JoinHosts}
    \cup {Event("joined", OtherId, NoData), Event("leaved", HostId, NoData)}

JoinEvent(p) ==
    /\ InSession(peer[p])
    /\ peer[p].pushed < MaxJoinPushes
    /\ \E e \in JoinEvents : Callback(p, e)
    /\ UNCHANGED <<now, wire>>

JoinInit ==
    /\ peer \in [{ClientId} -> {Joined(food) : food \in FoodDraws}]
    /\ now = 1
    /\ wire = [p \in {ClientId} |-> <<>>]

JoinNext ==
    \/ \E p \in DOMAIN peer : JoinEvent(p)
    \/ \E p \in DOMAIN peer : BeginDrain(p)
    \/ \E p \in DOMAIN peer : DrainPop(p)
    \/ \E p \in DOMAIN peer : DrainEnd(p)

JoinSpec == JoinInit /\ [][JoinNext]_vars

(***************************************************************************)
(* C35.  After a simulation tick of the host or of the single player, the  *)
(* head of no active snake that is alive lies on a cell of another active  *)
(* snake: a snake whose move ended on another one has been respawned.      *)
(***************************************************************************)
\* A step of Game::update in which a simulating process ran updatePlayers.
SimulationTick(p) ==
    /\ peer[p].isHost \/ ~peer[p].api
    /\ peer'[p].state = "PLAYING"
    /\ peer'[p].lastUpdate # peer[p].lastUpdate

HeadsClear(g) ==
    \A i \in Slots :
        isValid(g, i) /\ g.players[i].snake[1].alive
        => g.players[i].snake[1].body[1] \notin CellsOfOthers(g, i)

C35_NoHeadOnAnotherSnake ==
    [][\A p \in Procs : SimulationTick(p) => HeadsClear(peer'[p])]_vars

\* The host's snake has passed the cell (12,7), the update of "oth" has then
\* put the head of its snake there, and the host has simulated the next
\* tick: its snake has moved on and the head of the other lies on its body.
C35_Witness ==
    \E p \in Procs :
        /\ peer[p].isHost /\ peer[p].state = "PLAYING" /\ peer[p].pc = "idle"
        /\ peer[p].lastUpdate = now
        /\ isValid(peer[p], 0) /\ isValid(peer[p], 1)
        /\ peer[p].players[0].snake[1].body[1] = Pos(13, 7)
        /\ peer[p].players[1].snake[1].alive
        /\ peer[p].players[1].snake[1].body[1] = Pos(12, 7)
        /\ Pos(12, 7) \in Cells(peer[p].players[0].snake[1].body)

(***************************************************************************)
(* C36.  The food position of every process is inside the grid.  Food::spawn *)
(* draws cells of the grid only; handleStateSync stores the foodX and foodY *)
(* of a state_sync as they are sent, on whichever process receives it.      *)
(***************************************************************************)
\* C36: in every reachable state the food of every process lies inside the
\* grid, 0 <= x < GRID_WIDTH and 0 <= y < GRID_HEIGHT, whatever state_sync
\* payloads the process has received.
C36_FoodInGrid ==
    \A p \in Procs : InGrid(peer[p].food)

\* A host in a running match has taken the state_sync of another peer that
\* names the cell (GRID_WIDTH, -1), and holds that cell as its food.
C36_Witness ==
    \E p \in Procs :
        /\ peer[p].isHost /\ peer[p].state = "PLAYING" /\ peer[p].pc = "idle"
        /\ peer[p].dispatched # <<>>
        /\ peer[p].food = Pos(FoodMsg.foodX, FoodMsg.foodY)
        /\ ~InGrid(peer[p].food)

(***************************************************************************)
(* C37.  The score of every snake stays between 0 and MAX_SCORE.           *)
(* update_remote_player writes a score only inside that range; Snake::grow *)
(* adds 10 and Snake::reset, called on every respawn, subtracts 10.        *)
(***************************************************************************)
MAX_SCORE == 10000

\* C37: in every reachable state the score of every active player's snake
\* is at least 0 and at most MAX_SCORE, whatever was eaten, whoever died
\* and was respawned, and whatever updates of other players arrived.
C37_ScoreInRange ==
    \A p \in Procs : \A i \in Slots :
        isValid(peer[p], i)
        => /\ peer[p].players[i].snake[1].score >= 0
           /\ peer[p].players[i].snake[1].score <= MAX_SCORE

\* The host's snake has run into the snake of "oth" before it ate anything
\* and has been respawned: it lies at a spawn position with the score -10,
\* while the update of "oth" that carried MAX_SCORE has been taken over.
C37_Witness ==
    \E p \in Procs :
        /\ peer[p].isHost /\ peer[p].state = "PLAYING" /\ peer[p].pc = "idle"
        /\ isValid(peer[p], 0) /\ isValid(peer[p], 1)
        /\ peer[p].players[0].snake[1].body[1] \in SpawnDraws
        /\ peer[p].players[0].snake[1].score = -10
        /\ peer[p].players[1].snake[1].score = MAX_SCORE

(***************************************************************************)
(* C38.  The elapsed time checkMatchTimer computes on a host or in a       *)
(* single-player game, now - matchStartTime - totalPausedTime in unsigned   *)
(* arithmetic, against the time that has passed since matchStartTime.       *)
(* handleStateSync writes matchStartTime and totalPausedTime of a           *)
(* state_sync on whichever process receives it.                             *)
(***************************************************************************)
\* A process that computes the match timer itself and is in the state in
\* which Game::update calls checkMatchTimer.
KeepsTime(g) == g.state = "PLAYING" /\ (g.isHost \/ ~g.api)

\* C38: in every reachable state in which a host or a single-player game
\* runs the match timer, the elapsed time it computes has not wrapped
\* around: it is at most the time that has passed since the match start,
\* also after matchStartTime or totalPausedTime came from a state_sync.
C38_ElapsedNeverWraps ==
    \A p \in Procs :
        KeepsTime(peer[p]) => elapsedMsAt(peer[p], now) <= now - peer[p].matchStartTime

\* A host has taken the totalPausedTime of 1 ms from the state_sync of
\* another peer while less than 1 ms had passed since the match start: the
\* elapsed time it computed at the end of the same update cycle lies a whole
\* word above the match duration, and the match has ended at its start.
C38_Witness ==
    \E p \in Procs :
        /\ peer[p].isHost /\ peer[p].api /\ peer[p].pc = "idle"
        /\ peer[p].state = "MATCH_END"
        /\ peer[p].dispatched # <<>>
        /\ peer[p].matchStartTime = now /\ peer[p].totalPausedTime = 1
        /\ peer[p].syncedElapsedMs = WORD - 1

(***************************************************************************)
(* C39.  The rematch key in MATCH_END: Game::handleMatchEndInput calls     *)
(* Game::resetMatch, which resets the snakes and the match data and then   *)
(* asks changeState for PLAYING.                                           *)
(***************************************************************************)
\* C39: whenever a game in MATCH_END takes the rematch key, the game state
\* afterwards is not MATCH_END and was reached by a transition the table
\* allows, the winner index is -1, the snake of every active player is
\* reset with the score 0 and the match timers are restarted.
C39_RematchLeavesMatchEnd ==
    \A p \in Procs : \A spawn \in SpawnDraws, food \in FoodDraws :
        LET g == peer[p]
            h == handleMatchEndInput(Fresh(g), "r", now, [i \in Slots |-> spawn], food)
        IN  g.state = "MATCH_END" /\ CanInput(g, "handleMatchEndInput")
            => /\ h.state # "MATCH_END"
               /\ isValidTransition("MATCH_END", h.state)
               /\ h.winnerIndex = -1
               /\ h.matchStartTime = now
               /\ h.totalPausedTime = 0 /\ h.pauseStartTime = 0
               /\ \A i \in Slots :
                     isValid(h, i) => /\ h.players[i].snake[1].score = 0
                                      /\ h.players[i].snake[1].body[1] = spawn

\* A single-player match has ended and the rematch key was taken after it:
\* the transition to PLAYING was refused, the game is still in MATCH_END,
\* and the snake lies reset at a spawn position with the timers restarted.
C39_Witness ==
    \E p \in Procs :
        /\ peer[p].state = "MATCH_END" /\ ~peer[p].api
        /\ peer[p].lastError = ErrorLine("MATCH_END", "PLAYING", FALSE)
        /\ peer[p].winnerIndex = -1
        /\ peer[p].matchStartTime = now /\ now > 1
        /\ isValid(peer[p], 0)
        /\ peer[p].players[0].snake[1].body[1] \in SpawnDraws
        /\ peer[p].players[0].snake[1].direction = "NONE"

(***************************************************************************)
(* C40.  Slot assignment against the host's.  The roster the host          *)
(* broadcasts lists the peer ids of its active slots; handleStateSync on a  *)
(* client adds each id it does not hold through add_player, which takes    *)
(* the first free slot of the client, as handlePlayerJoined does for a     *)
(* "joined" event.                                                         *)
(***************************************************************************)
\* C40: whenever a client has processed a roster of the host, every peer id
\* the host holds occupies the same slot index on the client as on the
\* host, whatever "joined" events the client processed before the roster.
C40_SlotsAsOnHost ==
    [][\A p \in Procs :
          RosterAtFront(peer[p]) /\ Dispatching(p) =>
              \A h \in JoinHosts :
                  RosterSent(h) = popFront(peer[p].messageQueue).jsonData
                  => \A id \in {HostId, ClientId, OtherId} :
                        find_player_by_client_id(h, id) >= 0
                        => find_player_by_client_id(peer'[p], id) =
                               find_player_by_client_id(h, id)]_vars

\* The client has processed the "joined" event of "oth" and then the roster
\* of the host: "oth" holds slot 0, the host slot 1 and the client itself
\* slot 2, while the host holds them in slots 2, 0 and 1.
C40_Witness ==
    \E p \in Procs :
        /\ ~peer[p].isHost /\ InSession(peer[p]) /\ peer[p].pc = "idle"
        /\ Len(peer[p].dispatched) >= 2
        /\ find_player_by_client_id(peer[p], OtherId) = 0
        /\ find_player_by_client_id(peer[p], HostId) = 1
        /\ find_player_by_client_id(peer[p], ClientId) = 2
        /\ peer[p].myIndex = 2
        /\ \E h \in JoinHosts : /\ find_player_by_client_id(h, HostId) = 0
                                /\ find_player_by_client_id(h, ClientId) = 1
                                /\ find_player_by_client_id(h, OtherId) = 2

====
